---- MODULE Spec2Model ----
(***************************************************************************)
(* Product feedback dashboard worker (src/src/index.ts): keyword theme     *)
(* classification, bucketed KPI resolution, theme aggregation and risk     *)
(* scoring, headline selection and the three module-level cache slots.     *)
(*                                                                         *)
(* Strings are TLA+ strings; the substring and word-boundary tests of the  *)
(* source are computed character by character with SubSeq.  Time is in     *)
(* milliseconds since the epoch of the model (day 0, 00:00:00.000 UTC).    *)
(***************************************************************************)
EXTENDS Integers, Sequences, FiniteSets, TLC

(***************************************************************************)
(* Bounds of the model.                                                    *)
(***************************************************************************)
MaxItems == 3        \* rows of a feedback table drawn for the KPI handler
MaxBlocks == 2       \* runs of equal rows in a bucket given to the classifier
BigRun == 20         \* length of a long run of equal rows in such a bucket
MaxThemes == 4       \* theme aggregates drawn for the headline selection
MaxEnterprise == 6   \* enterprise mentions of one drawn aggregate
MaxRequests == 2     \* requests in flight at once
MaxToday == 2        \* rows of today in a table drawn for the aggregator
MaxYesterday == 3    \* rows of yesterday in such a table
MaxMentions == 200   \* mentions of the theme whose risk score is computed

(***************************************************************************)
(* State.  The variables fall into groups, one per specification: a        *)
(* specification moves its own group and leaves the others idle.           *)
(***************************************************************************)
VARIABLES
  \* GET /api/kpi-themes (SpecKpi)
  kpiItems,      \* the rows the feedback table holds
  kpiPc,         \* "idle" | "reading" | "done"
  kpiResp,       \* the response of the request, Null before it is sent
  \* generateThemeWithCount (SpecClassify)
  clsItems,      \* the bucket
  clsExclude,    \* excludeThemes
  clsPrefer,     \* preferTheme
  clsReply,      \* the oracle's reply, Null before the call returns
  clsResult,     \* what the function resolved to, pending before it returns
  \* headline selection (SpecHeadline)
  hlAggregated,  \* the aggregates, in theme-map order
  hlTop3,        \* the selected headlines, Null before the selection ran
  \* the worker and its requests (Spec)
  clock,             \* Date.now()
  feedback,          \* the rows of the feedback table, newest first
  cachedSummary,     \* let cachedSummary (line 31)
  cachedAt,          \* let cachedAt (line 32)
  dashboardCache,    \* let dashboardCache (line 36)
  execSummaryCache,  \* let execSummaryCache (line 40)
  reqs,              \* the requests in flight and their responses, by slot
  \* aggregation and rendering of one table (SpecAggregate)
  agItems,       \* the rows of the table, newest first
  agOut,         \* the aggregates and the page computed from them, Null before
  agLabels,      \* the theme each classifier gives each row, Null before
  \* the risk score of one theme (SpecRisk)
  rkTally,       \* the themeMap entry of the theme (lines 283-300)
  rkScored       \* its aggregate and its score, Null before

kpiVars == <<kpiItems, kpiPc, kpiResp>>
clsVars == <<clsItems, clsExclude, clsPrefer, clsReply, clsResult>>
hlVars == <<hlAggregated, hlTop3>>
cacheVars == <<cachedSummary, cachedAt, dashboardCache, execSummaryCache>>
mainVars == <<clock, feedback, cacheVars, reqs>>
agVars == <<agItems, agOut, agLabels>>
rkVars == <<rkTally, rkScored>>
vars == <<kpiVars, clsVars, hlVars, mainVars, agVars, rkVars>>

notKpi == <<clsVars, hlVars, mainVars, agVars, rkVars>>
notCls == <<kpiVars, hlVars, mainVars, agVars, rkVars>>
notHl == <<kpiVars, clsVars, mainVars, agVars, rkVars>>
notMain == <<kpiVars, clsVars, hlVars, agVars, rkVars>>
notAg == <<kpiVars, clsVars, hlVars, mainVars, rkVars>>
notRk == <<kpiVars, clsVars, hlVars, mainVars, agVars>>

(***************************************************************************)
(* The absent value: null / undefined of the source.                      *)
(***************************************************************************)
Null == [null |-> TRUE]

\* an omitted or empty string argument (falsy in `x && ...`)
NoTheme == ""

KpiIdle == kpiItems = <<>> /\ kpiPc = "off" /\ kpiResp = Null

ClsIdle ==
  /\ clsItems = <<>> /\ clsExclude = {} /\ clsPrefer = NoTheme
  /\ clsReply = Null /\ clsResult = [pending |-> TRUE]

HlIdle == hlAggregated = <<>> /\ hlTop3 = Null

AgIdle == agItems = <<>> /\ agOut = Null /\ agLabels = Null

RkIdle == rkTally = Null /\ rkScored = Null

MainIdle ==
  /\ clock = 0 /\ feedback = <<>>
  /\ cachedSummary = Null /\ cachedAt = 0
  /\ dashboardCache = Null /\ execSummaryCache = Null
  /\ reqs = <<>>

(***************************************************************************)
(* The texts the inputs are drawn from.                                    *)
(***************************************************************************)
KpiComments == {"Login fails", "API timeout", "email alerts late", "docs scattered", "love it"}
KpiSources == {"email", "Discord"}
Sentiments == {"negative", "neutral", "positive"}

\* the "issue" strings an oracle answer may carry
OracleIssues == {"", "Login Bugs", "Issues with the API timeouts", "'email alerts'",
                 "Docs", "Billing Surprises", "slow dashboard charts today again everywhere"}

\* the comments of the rows drawn for the aggregator
AgComments == {"Login fails", "API timeout", "email alerts late", "meh", "Works fine."}

SampleComments == KpiComments \cup AgComments
SampleTexts == SampleComments \cup KpiSources \cup Sentiments

(***************************************************************************)
(* Text helpers.                                                           *)
(***************************************************************************)
UpperChars == <<"A","B","C","D","E","F","G","H","I","J","K","L","M",
                "N","O","P","Q","R","S","T","U","V","W","X","Y","Z">>
LowerChars == <<"a","b","c","d","e","f","g","h","i","j","k","l","m",
                "n","o","p","q","r","s","t","u","v","w","x","y","z">>
DigitChars == {"0","1","2","3","4","5","6","7","8","9"}

\* one character of String.prototype.toLowerCase
LowerChar(c) ==
  IF \E i \in 1..26 : UpperChars[i] = c
    THEN LowerChars[CHOOSE i \in 1..26 : UpperChars[i] = c]
    ELSE c

\* one character of String.prototype.toUpperCase
UpperChar(c) ==
  IF \E i \in 1..26 : LowerChars[i] = c
    THEN UpperChars[CHOOSE i \in 1..26 : LowerChars[i] = c]
    ELSE c

RECURSIVE lowerCaseOf(_)
lowerCaseOf(s) ==
  IF Len(s) = 0 THEN ""
  ELSE LowerChar(SubSeq(s, 1, 1)) \o lowerCaseOf(SubSeq(s, 2, Len(s)))

\* String.prototype.toLowerCase, tabulated once for the drawn texts
LowerCaseTable == [s \in SampleTexts |-> lowerCaseOf(s)]

toLowerCase(s) == LowerCaseTable[s]

RECURSIVE toUpperCase(_)
toUpperCase(s) ==
  IF Len(s) = 0 THEN ""
  ELSE UpperChar(SubSeq(s, 1, 1)) \o toUpperCase(SubSeq(s, 2, Len(s)))

\* the character at position i, "" outside the string
CharAt(s, i) == IF i >= 1 /\ i <= Len(s) THEN SubSeq(s, i, i) ELSE ""

\* \w of a regular expression
IsWordChar(c) ==
  \/ \E i \in 1..26 : LowerChars[i] = c \/ UpperChars[i] = c
  \/ c \in DigitChars
  \/ c = "_"

\* s has the literal k at position i
HasAt(s, k, i) == i >= 1 /\ i + Len(k) - 1 <= Len(s) /\ SubSeq(s, i, i + Len(k) - 1) = k

\* String.prototype.includes
Includes(s, k) == \E i \in 1..(Len(s) + 1) : HasAt(s, k, i)

\* \b at the gap before position i (between characters i-1 and i)
BoundaryBefore(s, i) == IsWordChar(CharAt(s, i - 1)) # IsWordChar(CharAt(s, i))

(***************************************************************************)
(* One alternative of a /\b(...)\b/ test.  An alternative is a sequence of *)
(* one or two literals; two literals <<a, b>> stand for a.?b (at most one  *)
(* arbitrary character between them).                                      *)
(***************************************************************************)
MatchAlt(s, alt) ==
  \E i \in 1..Len(s) :
    \E gap \in (IF Len(alt) = 2 THEN {0, 1} ELSE {0}) :
      LET j == i + Len(alt[1]) + gap
          end == IF Len(alt) = 2 THEN j + Len(alt[2]) ELSE i + Len(alt[1])
      IN  /\ HasAt(s, alt[1], i)
          /\ Len(alt) = 2 => HasAt(s, alt[2], j)
          /\ BoundaryBefore(s, i)
          /\ BoundaryBefore(s, end)

\* RegExp.prototype.test of /\b(alt1|alt2|...)\b/
TestWords(s, alts) == \E k \in 1..Len(alts) : MatchAlt(s, alts[k])

\* String.prototype.trim (the drawn texts hold no whitespace but the space)
RECURSIVE TrimLeft(_)
TrimLeft(s) == IF Len(s) > 0 /\ SubSeq(s, 1, 1) = " " THEN TrimLeft(SubSeq(s, 2, Len(s))) ELSE s

RECURSIVE TrimRight(_)
TrimRight(s) ==
  IF Len(s) > 0 /\ SubSeq(s, Len(s), Len(s)) = " " THEN TrimRight(SubSeq(s, 1, Len(s) - 1)) ELSE s

Trim(s) == TrimRight(TrimLeft(s))

\* s.split(/\s+/).filter(w => w.length > 0): the words of s
RECURSIVE SplitFrom(_, _, _)
SplitFrom(s, i, word) ==
  IF i > Len(s) THEN (IF word = "" THEN <<>> ELSE <<word>>)
  ELSE IF SubSeq(s, i, i) = " "
    THEN (IF word = "" THEN <<>> ELSE <<word>>) \o SplitFrom(s, i + 1, "")
  ELSE SplitFrom(s, i + 1, word \o SubSeq(s, i, i))

SplitWords(s) == SplitFrom(s, 1, "")

\* Array.prototype.join(sep)
RECURSIVE JoinWith(_, _)
JoinWith(ws, sep) ==
  IF ws = <<>> THEN ""
  ELSE IF Len(ws) = 1 THEN ws[1]
  ELSE ws[1] \o sep \o JoinWith(Tail(ws), sep)

JoinWords(ws) == JoinWith(ws, " ")

QuoteChars == {"\"", "'"}

\* s.replace(/^["']|["']$/g, '')
StripQuotes(s) ==
  LET StripLast(a) ==
        IF Len(a) > 0 /\ SubSeq(a, Len(a), Len(a)) \in QuoteChars THEN SubSeq(a, 1, Len(a) - 1) ELSE a
  IN  StripLast(IF Len(s) > 0 /\ SubSeq(s, 1, 1) \in QuoteChars THEN SubSeq(s, 2, Len(s)) ELSE s)

\* s starts with p, compared case-insensitively (the i flag)
StartsWithCI(s, p) == Len(s) >= Len(p) /\ lowerCaseOf(SubSeq(s, 1, Len(p))) = lowerCaseOf(p)

RECURSIVE SeqSum(_)
SeqSum(q) == IF q = <<>> THEN 0 ELSE Head(q) + SeqSum(Tail(q))

Range(q) == { q[i] : i \in 1..Len(q) }

\* the distinct elements of q in the order of their first occurrence
\* (the key order of a Map filled by iterating q)
RECURSIVE FirstOccurrences(_)
FirstOccurrences(q) ==
  IF q = <<>> THEN <<>>
  ELSE LET AddLast(init, last) == IF last \in Range(init) THEN init ELSE Append(init, last)
       IN  AddLast(FirstOccurrences(SubSeq(q, 1, Len(q) - 1)), q[Len(q)])

\* q with x inserted behind every element whose key is >= x.key
RECURSIVE InsertDesc(_, _)
InsertDesc(q, x) ==
  IF q = <<>> THEN <<x>>
  ELSE IF Head(q).key >= x.key THEN <<Head(q)>> \o InsertDesc(Tail(q), x)
  ELSE <<x>> \o q

\* Array.prototype.sort((a, b) => b.key - a.key): descending and stable
RECURSIVE SortDesc(_)
SortDesc(q) ==
  IF q = <<>> THEN <<>>
  ELSE InsertDesc(SortDesc(SubSeq(q, 1, Len(q) - 1)), q[Len(q)])

\* Array.prototype.slice(0, n)
Take(q, n) == SubSeq(q, 1, IF Len(q) < n THEN Len(q) ELSE n)

(***************************************************************************)
(* Feedback rows and customer tier.                                        *)
(***************************************************************************)
ENTERPRISE_SOURCES == {"customer support tickets", "email"}

IsEnterprise(r) == toLowerCase(r.source) \in ENTERPRISE_SOURCES

enterpriseCountOf(rows) == Len(SelectSeq(rows, IsEnterprise))

(***************************************************************************)
(* getThemeForCommentBackend: ordered keyword rules, first match wins.     *)
(***************************************************************************)
BackendRules == <<
  [alts |-> << <<"login">>, <<"sso">>, <<"auth">>, <<"password">>, <<"authenticate">>,
               <<"sign", "in">>, <<"log", "in">> >>,
   theme |-> "Authentication / Login Issues"],
  [alts |-> << <<"api">>, <<"rate", "limit">>, <<"timeout">>, <<"500">>, <<"endpoint">> >>,
   theme |-> "API Timeout Errors"],
  [alts |-> << <<"password reset">>, <<"reset link">>, <<"forgot password">>, <<"link expired">> >>,
   theme |-> "Password Reset Issues"],
  [alts |-> << <<"deploy">>, <<"token">>, <<"session">>, <<"invalid">> >>,
   theme |-> "Deployment / Session Issues"],
  [alts |-> << <<"ui">>, <<"interface">>, <<"ux">>, <<"design">>, <<"bug">> >>,
   theme |-> "UI / UX Issues"],
  [alts |-> << <<"email">>, <<"notification">>, <<"alert">> >>,
   theme |-> "Notifications / Alerts"],
  [alts |-> << <<"reset">>, <<"forgot">>, <<"recovery">> >>,
   theme |-> "Account Recovery"],
  [alts |-> << <<"status">>, <<"confusion">>, <<"tracking">> >>,
   theme |-> "Issue / Ticket Status"],
  [alts |-> << <<"dashboard">>, <<"latency">>, <<"slow">>, <<"performance">> >>,
   theme |-> "Dashboard Latency"],
  [alts |-> << <<"documentation">>, <<"docs">>, <<"guide">>, <<"scattered">> >>,
   theme |-> "Documentation Confusion"] >>

backendThemeOf(comment) ==
  LET First(hits) ==
        IF hits = {} THEN "Other"
        ELSE BackendRules[CHOOSE k \in hits : \A m \in hits : k <= m].theme
      Test(text) == First({ k \in 1..Len(BackendRules) : TestWords(text, BackendRules[k].alts) })
  IN  Test(toLowerCase(comment))

\* getThemeForCommentBackend, tabulated once for the drawn comments
BackendThemeTable == [c \in SampleComments |-> backendThemeOf(c)]

getThemeForCommentBackend(comment) == BackendThemeTable[comment]

\* countForCluster that counts the enterprise rows of the whole bucket
countForClusterAllEnterprise(items, cluster) ==
  LET Matches(r) == getThemeForCommentBackend(r.comment) = cluster
  IN  [count |-> Len(SelectSeq(items, Matches)), enterpriseCount |-> enterpriseCountOf(items)]

\* countForCluster
countForCluster(items, cluster) ==
  LET Matches(r) == getThemeForCommentBackend(r.comment) = cluster
      Counts(matching) ==
        [count |-> Len(matching), enterpriseCount |-> enterpriseCountOf(matching)]
  IN  Counts(SelectSeq(items, Matches))

KPI_EXCLUDED_THEMES == {"Notifications / Alerts", "Issue / Ticket Status"}
LOW_IMPACT_MAX_ISSUES == 3
MONITOR_PREFERRED_THEME == "Authentication / Login Issues"

(***************************************************************************)
(* The byTheme Map of fallbackThemeAndCount and getTopThemesForLowBucket:  *)
(* one entry per surfaced theme, in insertion order, with its rows.        *)
(***************************************************************************)
\* the key under which a row of the given theme is filed (line 452; where includeOther
\* is not set the key is the theme, line 421)
keyOfTheme(theme, includeOther) ==
  IF theme = "Other" /\ includeOther THEN "Various feedback" ELSE theme

\* the Map filled from the rows that were not skipped (lines 421-423, 453-454): one
\* entry per key in insertion order, with its rows in their order
groupByTheme(kept, includeOther) ==
  LET KeyOf(r) == keyOfTheme(getThemeForCommentBackend(r.comment), includeOther)
      Entry(label, rows) == [label |-> label, rows |-> rows, key |-> Len(rows)]
      Entries(keys) ==
        [i \in 1..Len(keys) |->
           LET InKey(r) == KeyOf(r) = keys[i]
           IN  Entry(keys[i], SelectSeq(kept, InKey))]
  IN  Entries(FirstOccurrences([i \in 1..Len(kept) |-> KeyOf(kept[i])]))

\* byThemeEntries that forgets the exclusion set
byThemeEntriesNoExclude(items, excludeThemes, includeOther) ==
  LET Kept(r) == includeOther \/ getThemeForCommentBackend(r.comment) # "Other"
  IN  groupByTheme(SelectSeq(items, Kept), includeOther)

\* byThemeEntries that drops unclassified rows even when includeOther is set
byThemeEntriesDropOther(items, excludeThemes, includeOther) ==
  LET Skipped(theme) == theme = "Other" \/ theme \in excludeThemes
      Kept(r) == ~Skipped(getThemeForCommentBackend(r.comment))
  IN  groupByTheme(SelectSeq(items, Kept), FALSE)

byThemeEntries(items, excludeThemes, includeOther) ==
  LET Skipped(theme) == (~includeOther /\ theme = "Other") \/ theme \in excludeThemes
      Kept(r) == ~Skipped(getThemeForCommentBackend(r.comment))
  IN  groupByTheme(SelectSeq(items, Kept), includeOther)

KpiOf(entry) ==
  [label |-> entry.label, count |-> Len(entry.rows),
   enterpriseCount |-> enterpriseCountOf(entry.rows)]

\* fallbackThemeAndCount that ignores preferTheme
fallbackThemeAndCountNoPrefer(items, excludeThemes, preferTheme) ==
  IF Len(items) = 0 THEN Null
  ELSE
    LET Top(sorted) == IF sorted = <<>> THEN Null ELSE KpiOf(sorted[1])
    IN  Top(SortDesc(byThemeEntries(items, excludeThemes, FALSE)))

\* fallbackThemeAndCount(items, excludeThemes, preferTheme); an omitted preferTheme is
\* NoTheme, which `preferTheme && ...` treats as the source treats undefined
fallbackThemeAndCount(items, excludeThemes, preferTheme) ==
  IF Len(items) = 0 THEN Null
  ELSE
    LET Top(sorted) == IF sorted = <<>> THEN Null ELSE KpiOf(sorted[1])
        Pick(byTheme) ==
          IF preferTheme # NoTheme /\ \E i \in 1..Len(byTheme) : byTheme[i].label = preferTheme
            THEN KpiOf(byTheme[CHOOSE i \in 1..Len(byTheme) : byTheme[i].label = preferTheme])
            ELSE Top(SortDesc(byTheme))
    IN  Pick(byThemeEntries(items, excludeThemes, FALSE))

\* getTopThemesForLowBucket(items, excludeThemes, includeOther)
getTopThemesForLowBucket(items, excludeThemes, includeOther) ==
  IF Len(items) = 0 THEN <<>>
  ELSE
    LET Kpis(top) == [i \in 1..Len(top) |-> KpiOf(top[i])]
    IN  Kpis(Take(SortDesc(byThemeEntries(items, excludeThemes, includeOther)),
                  LOW_IMPACT_MAX_ISSUES))

(***************************************************************************)
(* GET /api/kpi-themes after a successful storage read (lines 881-912).    *)
(* calls lists the classifier invocations in program order.                *)
(***************************************************************************)
HasSentiment(r, sentiment) == toLowerCase(r.sentiment) = sentiment

LabelSet(kpi) == IF kpi = Null THEN {} ELSE {kpi.label}

kpiThemes(items) ==
  LET IsNegative(r) == HasSentiment(r, "negative")
      IsNeutral(r) == HasSentiment(r, "neutral")
      IsPositive(r) == HasSentiment(r, "positive")
      Call(fn, bucket, exclude) == <<[fn |-> fn, bucket |-> bucket, exclude |-> exclude]>>
      \* lines 905-912
      Respond(criticalItems, monitorItems, critical, monitor, retry2, retry3, lowIssues) ==
        [status |-> 200,
         critical |-> critical,
         monitor |-> monitor,
         low |-> IF Len(lowIssues) > 0 THEN [issues |-> lowIssues] ELSE Null,
         calls |->
           (IF Len(criticalItems) > 0 THEN Call("fallbackThemeAndCount", "critical", {}) ELSE <<>>)
           \o (IF Len(monitorItems) > 0
                 THEN Call("fallbackThemeAndCount", "monitor",
                           KPI_EXCLUDED_THEMES \cup LabelSet(critical))
                 ELSE <<>>)
           \o Call("getTopThemesForLowBucket", "low",
                   KPI_EXCLUDED_THEMES \cup LabelSet(critical) \cup LabelSet(monitor))
           \o (IF retry2
                 THEN Call("getTopThemesForLowBucket", "low", LabelSet(critical) \cup LabelSet(monitor))
                 ELSE <<>>)
           \o (IF retry3
                 THEN Call("getTopThemesForLowBucket", "low", LabelSet(critical) \cup LabelSet(monitor))
                 ELSE <<>>)]
      \* lines 898-903: the third pass files unclassified rows too
      Pass3(criticalItems, monitorItems, lowItems, critical, monitor, retry2, low2) ==
        Respond(criticalItems, monitorItems, critical, monitor, retry2,
                Len(low2) = 0 /\ Len(lowItems) > 0,
                IF Len(low2) = 0 /\ Len(lowItems) > 0
                  THEN getTopThemesForLowBucket(lowItems, LabelSet(critical) \cup LabelSet(monitor), TRUE)
                  ELSE low2)
      \* lines 892-897: the second pass keeps only the two labels excluded
      Pass2(criticalItems, monitorItems, lowItems, critical, monitor, low1) ==
        Pass3(criticalItems, monitorItems, lowItems, critical, monitor,
              Len(low1) = 0 /\ Len(lowItems) > 0,
              IF Len(low1) = 0 /\ Len(lowItems) > 0
                THEN getTopThemesForLowBucket(lowItems, LabelSet(critical) \cup LabelSet(monitor), FALSE)
                ELSE low1)
      \* lines 889-891
      Low(criticalItems, monitorItems, lowItems, critical, monitor) ==
        Pass2(criticalItems, monitorItems, lowItems, critical, monitor,
              getTopThemesForLowBucket(
                lowItems, KPI_EXCLUDED_THEMES \cup LabelSet(critical) \cup LabelSet(monitor), FALSE))
      \* lines 886-888
      Monitor(criticalItems, monitorItems, lowItems, critical) ==
        Low(criticalItems, monitorItems, lowItems, critical,
            IF Len(monitorItems) > 0
              THEN fallbackThemeAndCount(monitorItems, KPI_EXCLUDED_THEMES \cup LabelSet(critical),
                                         MONITOR_PREFERRED_THEME)
              ELSE Null)
      \* line 885
      Critical(criticalItems, monitorItems, lowItems) ==
        Monitor(criticalItems, monitorItems, lowItems,
                IF Len(criticalItems) > 0
                  THEN fallbackThemeAndCount(criticalItems, {}, NoTheme) ELSE Null)
  IN  \* lines 881-883
      Critical(SelectSeq(items, IsNegative), SelectSeq(items, IsNeutral),
               SelectSeq(items, IsPositive))

\* the catch clause of the handler (lines 913-919)
kpiThemesError ==
  [status |-> 500, error |-> "Failed to generate KPI themes", calls |-> <<>>]

(***************************************************************************)
(* Inputs of the KPI resolution pass.                                      *)
(***************************************************************************)

KpiRows == [source : KpiSources, sentiment : Sentiments, comment : KpiComments, timestamp : {0}]

SeqsUpTo(S, n) == UNION { [1..k -> S] : k \in 0..n }

KpiInit ==
  /\ kpiItems \in SeqsUpTo(KpiRows, MaxItems)
  /\ kpiPc = "idle"
  /\ kpiResp = Null
  /\ ClsIdle /\ HlIdle /\ MainIdle /\ AgIdle /\ RkIdle

\* the request arrives and awaits the storage read (line 876)
KpiStart ==
  /\ kpiPc = "idle"
  /\ kpiPc' = "reading"
  /\ UNCHANGED <<kpiItems, kpiResp, notKpi>>

\* the storage read resolves and the handler answers
KpiRespond ==
  /\ kpiPc = "reading"
  /\ kpiPc' = "done"
  /\ kpiResp' = kpiThemes(kpiItems)
  /\ UNCHANGED <<kpiItems, notKpi>>

\* the storage read rejects and the catch clause answers
KpiStorageFails ==
  /\ kpiPc = "reading"
  /\ kpiPc' = "done"
  /\ kpiResp' = kpiThemesError
  /\ UNCHANGED <<kpiItems, notKpi>>

KpiNext == KpiStart \/ KpiRespond \/ KpiStorageFails

SpecKpi == KpiInit /\ [][KpiNext]_vars

(***************************************************************************)
(* Oracle-assisted classification of one bucket (generateThemeWithCount).  *)
(***************************************************************************)
FillerPrefixes == <<"Improvement in", "Issues with", "Problems related to", "Problem with",
                    "Issue with", "Lack of", "Difficulty with">>

\* s.replace(/^(Improvement in|Issues with|...)\s*/gi, '')
StripFiller(s) ==
  LET Strip(k) == TrimLeft(SubSeq(s, Len(FillerPrefixes[k]) + 1, Len(s)))
      First(hits) == IF hits = {} THEN s ELSE Strip(CHOOSE h \in hits : \A m \in hits : h <= m)
  IN  First({ k \in 1..Len(FillerPrefixes) : StartsWithCI(s, FillerPrefixes[k]) })

\* s.replace(/^(The |A )\b/gi, '')
StripArticle(s) ==
  IF StartsWithCI(s, "The ") /\ IsWordChar(CharAt(s, 5)) THEN SubSeq(s, 5, Len(s))
  ELSE IF StartsWithCI(s, "A ") /\ IsWordChar(CharAt(s, 3)) THEN SubSeq(s, 3, Len(s))
  ELSE s

titleWord(w) ==
  IF Len(w) >= 2 /\ w = toUpperCase(w) THEN w
  ELSE UpperChar(CharAt(w, 1)) \o lowerCaseOf(SubSeq(w, 2, Len(w)))

\* postProcessThemeLabel (the drawn labels are single-line: /\n.*/ removes nothing)
postProcessThemeLabel(raw) ==
  LET Title(words) == JoinWords([i \in 1..Len(words) |-> titleWord(words[i])])
  IN  Title(Take(SplitWords(Trim(StripArticle(StripFiller(StripQuotes(Trim(raw)))))), 5))

ClusterRules == <<
  [alts |-> << <<"password reset">>, <<"reset link">>, <<"forgot password">>, <<"link expired">> >>,
   theme |-> "Password Reset Issues"],
  [alts |-> << <<"api">>, <<"timeout">>, <<"500">>, <<"endpoint">>, <<"rate", "limit">> >>,
   theme |-> "API Timeout Errors"],
  [alts |-> << <<"login">>, <<"sso">>, <<"auth">>, <<"authenticate">>, <<"sign", "in">>,
               <<"log", "in">>, <<"token invalid">>, <<"redirect">>, <<"idp">> >>,
   theme |-> "Authentication / Login Issues"],
  [alts |-> << <<"deploy">>, <<"session">>, <<"invalid">> >>,
   theme |-> "Deployment / Session Issues"],
  [alts |-> << <<"ui">>, <<"interface">>, <<"ux">>, <<"design">>, <<"bug">> >>,
   theme |-> "UI / UX Issues"],
  [alts |-> << <<"email">>, <<"notification">>, <<"alert">> >>,
   theme |-> "Notifications / Alerts"],
  [alts |-> << <<"recovery">>, <<"forgot">> >>,
   theme |-> "Account Recovery"],
  [alts |-> << <<"status">>, <<"confusion">>, <<"tracking">> >>,
   theme |-> "Issue / Ticket Status"],
  [alts |-> << <<"dashboard">>, <<"latency">>, <<"slow">>, <<"performance">> >>,
   theme |-> "Dashboard Latency"],
  [alts |-> << <<"documentation">>, <<"docs">>, <<"guide">>, <<"scattered">> >>,
   theme |-> "Documentation Confusion"] >>

\* normalizeToCanonicalCluster
normalizeToCanonicalCluster(aiLabel) ==
  LET First(hits) ==
        IF hits = {} THEN aiLabel
        ELSE ClusterRules[CHOOSE k \in hits : \A m \in hits : k <= m].theme
      Test(t) == First({ k \in 1..Len(ClusterRules) : TestWords(t, ClusterRules[k].alts) })
  IN  Test(lowerCaseOf(aiLabel))

\* the post-processed and the canonical label of every drawn oracle issue, tabulated once
OracleLabelTable ==
  [i \in OracleIssues |->
     LET Labels(processed) ==
           [processed |-> processed, canonical |-> normalizeToCanonicalCluster(processed)]
     IN  Labels(postProcessThemeLabel(Trim(i)))]

\* processedLabel.split(/\s+/).length: "".split gives one (empty) piece
SplitLength(s) ==
  LET Pieces(words) == IF words = <<>> THEN 1 ELSE Len(words)
  IN  Pieces(SplitWords(s))

(***************************************************************************)
(* What env.AI.run and parseAiJson give back: the call throws, the text is *)
(* not JSON ("garbage": JSON.parse throws), or it parses to an object      *)
(* whose issue may be missing and whose matching_indices may be empty.     *)
(***************************************************************************)
OracleReplies ==
  [kind : {"throws", "garbage"}, hasIssue : {FALSE}, issue : {""}, indices : {<<>>}]
  \cup [kind : {"json"}, hasIssue : {FALSE}, issue : {""}, indices : {<<>>, <<1>>}]
  \cup [kind : {"json"}, hasIssue : {TRUE}, issue : OracleIssues, indices : {<<>>, <<1>>}]

Thrown == [thrown |-> TRUE]

KPI_MIN_SHARE_PERCENT == 5

\* count < KPI_MIN_SHARE * bucketSize, in exact arithmetic (0.05 * n is exact in the
\* binary floating point of the source for every bucket size the model draws)
BelowMinShare(count, bucketSize) == count * 100 < KPI_MIN_SHARE_PERCENT * bucketSize

\* the body of the try block of generateThemeWithCount (lines 491-508)
classifyAttempt(items, excludeThemes, preferTheme, reply) ==
  IF reply.kind \in {"throws", "garbage"} THEN Thrown
  ELSE
    LET Kpi(label, counts) ==
          [label |-> label, count |-> counts.count, enterpriseCount |-> counts.enterpriseCount]
        Decide(rawLabel, labels, fallback, cluster, preferred) ==
          IF rawLabel = "" \/ Len(reply.indices) = 0 THEN fallback
          ELSE IF SplitLength(labels.processed) > 5 THEN fallback
          ELSE IF labels.canonical \in excludeThemes THEN fallback
          ELSE IF BelowMinShare(cluster.count, Len(items)) THEN fallback
          ELSE IF preferTheme # NoTheme /\ preferTheme \notin excludeThemes /\ preferred.count >= 1
            THEN Kpi(preferTheme, preferred)
          ELSE Kpi(labels.canonical, cluster)
        WithLabels(rawLabel, labels) ==
          Decide(rawLabel, labels,
                 fallbackThemeAndCount(items, excludeThemes, preferTheme),
                 countForCluster(items, labels.canonical),
                 countForCluster(items, preferTheme))
    IN  WithLabels(IF reply.hasIssue THEN Trim(reply.issue) ELSE "", OracleLabelTable[reply.issue])

\* generateThemeWithCount without its catch clause
generateThemeWithCountNoCatch(items, excludeThemes, preferTheme, reply) ==
  IF Len(items) = 0 THEN Null
  ELSE classifyAttempt(items, excludeThemes, preferTheme, reply)

\* generateThemeWithCount(env, items, excludeThemes, preferTheme), given the oracle's reply
generateThemeWithCount(items, excludeThemes, preferTheme, reply) ==
  IF Len(items) = 0 THEN Null
  ELSE
    LET OrFallback(attempt) ==
          IF attempt = Thrown
            THEN fallbackThemeAndCount(items, excludeThemes, preferTheme)
            ELSE attempt
    IN  OrFallback(classifyAttempt(items, excludeThemes, preferTheme, reply))

(***************************************************************************)
(* Inputs of the bucket classifier: a bucket is a sequence of runs of      *)
(* equal rows, so that a theme can cover less than 5% of a bucket.         *)
(***************************************************************************)
BucketRows == [source : KpiSources, sentiment : {"negative"}, comment : KpiComments, timestamp : {0}]
Runs == [row : BucketRows, run : {1, BigRun}]

RECURSIVE Flatten(_)
Flatten(runs) ==
  IF runs = <<>> THEN <<>>
  ELSE [i \in 1..Head(runs).run |-> Head(runs).row] \o Flatten(Tail(runs))

ExcludeSets == {{}, KPI_EXCLUDED_THEMES, KPI_EXCLUDED_THEMES \cup {"Authentication / Login Issues"}}

ClsInit ==
  /\ clsItems \in { Flatten(runs) : runs \in SeqsUpTo(Runs, MaxBlocks) }
  /\ clsExclude \in ExcludeSets
  /\ clsPrefer \in {NoTheme, MONITOR_PREFERRED_THEME}
  /\ clsReply = Null
  /\ clsResult = [pending |-> TRUE]
  /\ KpiIdle /\ HlIdle /\ MainIdle /\ AgIdle /\ RkIdle

\* env.AI.run rejects
ClassifyOracleThrows ==
  /\ clsReply = Null
  /\ clsReply' = CHOOSE r \in OracleReplies : r.kind = "throws"
  /\ clsResult' = generateThemeWithCount(clsItems, clsExclude, clsPrefer, clsReply')
  /\ UNCHANGED <<clsItems, clsExclude, clsPrefer, notCls>>

\* env.AI.run resolves with some text
ClassifyOracleAnswers ==
  /\ clsReply = Null
  /\ \E r \in OracleReplies :
       /\ r.kind # "throws"
       /\ clsReply' = r
       /\ clsResult' = generateThemeWithCount(clsItems, clsExclude, clsPrefer, r)
  /\ UNCHANGED <<clsItems, clsExclude, clsPrefer, notCls>>

ClsNext == ClassifyOracleThrows \/ ClassifyOracleAnswers

SpecClassify == ClsInit /\ [][ClsNext]_vars

(***************************************************************************)
(* Theme aggregates, risk score and headline selection.                    *)
(***************************************************************************)
\* Math.round(num / den) for den > 0: the nearest integer, halves towards +infinity
RoundDiv(num, den) == (2 * num + den) \div (2 * den)

\* aggregateOf that counts every mention as a self-serve mention
aggregateOfAllSelfServe(theme, rec, yesterday_mentions) ==
  [theme |-> theme,
   total_mentions |-> rec.total,
   enterprise_mentions |-> rec.enterprise,
   self_serve_mentions |-> rec.total,
   percent_negative |-> IF rec.total > 0 THEN RoundDiv(rec.negative * 100, rec.total) ELSE 0,
   yesterday_mentions |-> yesterday_mentions,
   percent_change_vs_yesterday |->
     IF yesterday_mentions > 0
       THEN RoundDiv((rec.total - yesterday_mentions) * 100, yesterday_mentions)
     ELSE IF rec.total > 0 THEN 100
     ELSE 0]

\* aggregateOf with Math.floor for Math.round in the change against yesterday
aggregateOfFloorChange(theme, rec, yesterday_mentions) ==
  [theme |-> theme,
   total_mentions |-> rec.total,
   enterprise_mentions |-> rec.enterprise,
   self_serve_mentions |-> rec.selfServe,
   percent_negative |-> IF rec.total > 0 THEN RoundDiv(rec.negative * 100, rec.total) ELSE 0,
   yesterday_mentions |-> yesterday_mentions,
   percent_change_vs_yesterday |->
     IF yesterday_mentions > 0
       THEN ((rec.total - yesterday_mentions) * 100) \div yesterday_mentions
     ELSE IF rec.total > 0 THEN 100
     ELSE 0]

\* one element of the result of aggregateThemes (lines 303-319), from the tally rec of
\* its theme and yesterday's mentions of it
aggregateOf(theme, rec, yesterday_mentions) ==
  [theme |-> theme,
   total_mentions |-> rec.total,
   enterprise_mentions |-> rec.enterprise,
   self_serve_mentions |-> rec.selfServe,
   percent_negative |-> IF rec.total > 0 THEN RoundDiv(rec.negative * 100, rec.total) ELSE 0,
   yesterday_mentions |-> yesterday_mentions,
   percent_change_vs_yesterday |->
     IF yesterday_mentions > 0
       THEN RoundDiv((rec.total - yesterday_mentions) * 100, yesterday_mentions)
     ELSE IF rec.total > 0 THEN 100
     ELSE 0]

\* computeRiskScore with > for >= in the Critical threshold
computeRiskScoreStrictCritical(agg) ==
  LET Level(risk_score) ==
        [risk_score |-> risk_score,
         risk_level |-> IF risk_score > 20 THEN "Critical"
                        ELSE IF risk_score >= 10 THEN "Monitor"
                        ELSE "Low Impact"]
      Score(base) == Level(IF agg.percent_negative >= 50 THEN base + 2 ELSE base)
  IN  Score(agg.enterprise_mentions * 3 + agg.self_serve_mentions * 1)

\* computeRiskScore
computeRiskScore(agg) ==
  LET Level(risk_score) ==
        [risk_score |-> risk_score,
         risk_level |-> IF risk_score >= 20 THEN "Critical"
                        ELSE IF risk_score >= 10 THEN "Monitor"
                        ELSE "Low Impact"]
      Score(base) == Level(IF agg.percent_negative >= 50 THEN base + 2 ELSE base)
  IN  Score(agg.enterprise_mentions * 3 + agg.self_serve_mentions * 1)

\* lines 595-598: every aggregate with its risk
withRisk(aggregated) ==
  LET With(agg, risk) ==
        [theme |-> agg.theme,
         total_mentions |-> agg.total_mentions,
         enterprise_mentions |-> agg.enterprise_mentions,
         self_serve_mentions |-> agg.self_serve_mentions,
         percent_negative |-> agg.percent_negative,
         yesterday_mentions |-> agg.yesterday_mentions,
         percent_change_vs_yesterday |-> agg.percent_change_vs_yesterday,
         risk_score |-> risk.risk_score,
         risk_level |-> risk.risk_level]
  IN  [i \in 1..Len(aggregated) |-> With(aggregated[i], computeRiskScore(aggregated[i]))]

\* [...q].sort((a, b) => b.risk_score - a.risk_score)
sortByRiskDesc(q) ==
  LET Vals(keyed) == [i \in 1..Len(keyed) |-> keyed[i].val]
  IN  Vals(SortDesc([i \in 1..Len(q) |-> [key |-> q[i].risk_score, val |-> q[i]]]))

IsLowImpact(x) == x.risk_level = "Low Impact"

\* selectTop3 that puts the best Low Impact theme third without looking at the candidates
selectTop3NoTopCheck(aggregatedWithRisk) ==
  LET Choose(lows, candidate3) ==
        IF lows # <<>> /\ Len(candidate3) >= 3
          THEN <<candidate3[1], candidate3[2], lows[1]>>
          ELSE candidate3
  IN  Choose(sortByRiskDesc(SelectSeq(aggregatedWithRisk, IsLowImpact)),
             Take(sortByRiskDesc(aggregatedWithRisk), 3))

\* selectTop3 without the diversity rule
selectTop3NoDiversity(aggregatedWithRisk) == Take(sortByRiskDesc(aggregatedWithRisk), 3)

\* lines 600-607: the three headline themes
selectTop3(aggregatedWithRisk) ==
  LET Choose(lows, candidate3) ==
        IF /\ lows # <<>>
           /\ ~(\E i \in 1..Len(candidate3) : IsLowImpact(candidate3[i]))
           /\ Len(candidate3) >= 3
          THEN <<candidate3[1], candidate3[2], lows[1]>>
          ELSE candidate3
  IN  Choose(sortByRiskDesc(SelectSeq(aggregatedWithRisk, IsLowImpact)),
             Take(sortByRiskDesc(aggregatedWithRisk), 3))

(***************************************************************************)
(* Inputs of the headline selection: one tally per theme seen today, in    *)
(* the insertion order of the theme map.  Every theme of the map has at    *)
(* least one mention today (line 295 adds today's rows only).              *)
(***************************************************************************)
HeadlineThemes == <<"Authentication / Login Issues", "Support Response Delays",
                    "Email Delivery Issues", "API Timeout Errors",
                    "Link / Validation Errors", "Documentation Confusion">>

\* the mentions of a drawn theme come from one tier: 1..MaxEnterprise enterprise mentions
\* or a single self-serve mention; all of them are negative or none is
Tallies ==
  { [total |-> t[1] + t[2], enterprise |-> t[1], selfServe |-> t[2],
     negative |-> IF t[3] THEN t[1] + t[2] ELSE 0] :
      t \in { <<p[1], p[2], b>> : p \in ((1..MaxEnterprise) \X {0}) \cup ({0} \X {1}), b \in BOOLEAN } }

HlInit ==
  /\ hlAggregated \in
       { [i \in 1..Len(ts) |-> aggregateOf(HeadlineThemes[i], ts[i], 0)] :
           ts \in SeqsUpTo(Tallies, MaxThemes) }
  /\ hlTop3 = Null
  /\ KpiIdle /\ ClsIdle /\ MainIdle /\ AgIdle /\ RkIdle

\* lines 595-607
SelectHeadlines ==
  /\ hlTop3 = Null
  /\ hlTop3' = [scored |-> withRisk(hlAggregated),
                themes |-> selectTop3(withRisk(hlAggregated))]
  /\ UNCHANGED <<hlAggregated, notHl>>

HlNext == SelectHeadlines

SpecHeadline == HlInit /\ [][HlNext]_vars

(***************************************************************************)
(* The risk score of one theme, from its themeMap entry (SpecRisk).        *)
(***************************************************************************)
\* the entries lines 283-300 can build for a theme of 1..MaxMentions mentions, all of
\* them from one tier
MentionTallies ==
  { [total |-> t[1], enterprise |-> IF t[3] THEN t[1] ELSE 0,
     selfServe |-> IF t[3] THEN 0 ELSE t[1], negative |-> t[2]] :
      t \in { <<total, negative, b>> \in (1..MaxMentions) \X (0..MaxMentions) \X BOOLEAN :
                 negative <= total } }

RkInit ==
  /\ rkTally \in MentionTallies
  /\ rkScored = Null
  /\ KpiIdle /\ ClsIdle /\ HlIdle /\ MainIdle /\ AgIdle

\* lines 303-319 for the theme, then line 595
ScoreTheme ==
  /\ rkScored = Null
  /\ rkScored' = withRisk(<<aggregateOf(HeadlineThemes[1], rkTally, 0)>>)[1]
  /\ UNCHANGED <<rkTally, notRk>>

RkNext == ScoreTheme

SpecRisk == RkInit /\ [][RkNext]_vars

(***************************************************************************)
(* toAbstractLabel: the aggregator's classifier.  null is NoTheme: the     *)
(* function never returns an empty string.                                 *)
(***************************************************************************)
KEYWORD_TO_THEME == <<
  [keywords |-> {"login", "auth", "password", "sign-in", "signin", "session", "token", "sso",
                 "saml", "idp"},
   theme |-> "Authentication / Login Issues"],
  [keywords |-> {"delay", "slow", "response time", "wait", "support", "reply", "ticket"},
   theme |-> "Support Response Delays"],
  [keywords |-> {"email", "delivery", "inbox", "notification", "mail"},
   theme |-> "Email Delivery Issues"],
  [keywords |-> {"api", "timeout", "504", "failing", "gateway timeout"},
   theme |-> "API Timeout Errors"],
  [keywords |-> {"link", "validation", "invalid", "error", "broken", "expired", "verify"},
   theme |-> "Link / Validation Errors"],
  [keywords |-> {"status", "confusion", "update", "tracking", "state"},
   theme |-> "Issue / Ticket Status"],
  [keywords |-> {"github", "needs info", "workflow", "triage", "issue status", "labels"},
   theme |-> "\"Needs Info\" Workflow Friction"],
  [keywords |-> {"documentation", "docs", "guide", "scattered", "right page"},
   theme |-> "Documentation Confusion"] >>

IsDigit(c) == c \in DigitChars

\* the end of the maximal run of digits that starts at position i
RECURSIVE DigitRunEnd(_, _)
DigitRunEnd(s, i) == IF IsDigit(CharAt(s, i + 1)) THEN DigitRunEnd(s, i + 1) ELSE i

\* s.replace(/\b\d{2,}\b/g, ''): from position i on
RECURSIVE RemoveNumbersFrom(_, _)
RemoveNumbersFrom(s, i) ==
  IF i > Len(s) THEN ""
  ELSE IF IsDigit(CharAt(s, i)) /\ ~IsWordChar(CharAt(s, i - 1))
    THEN LET e == DigitRunEnd(s, i)
         IN  IF e - i + 1 >= 2 /\ ~IsWordChar(CharAt(s, e + 1))
               THEN RemoveNumbersFrom(s, e + 1)
               ELSE SubSeq(s, i, i) \o RemoveNumbersFrom(s, i + 1)
  ELSE SubSeq(s, i, i) \o RemoveNumbersFrom(s, i + 1)

IsHex(c) == IsDigit(c) \/ LowerChar(c) \in {"a", "b", "c", "d", "e", "f"}

\* [a-f0-9]{8}-[a-f0-9]{4}-[a-f0-9]{4}-[a-f0-9]{4}-[a-f0-9]{12} at position i
UuidAt(s, i) ==
  /\ i + 35 <= Len(s)
  /\ \A k \in 0..35 :
       IF k \in {8, 13, 18, 23} THEN CharAt(s, i + k) = "-" ELSE IsHex(CharAt(s, i + k))

\* s.replace(/<uuid>/gi, ''): from position i on
RECURSIVE RemoveUuidsFrom(_, _)
RemoveUuidsFrom(s, i) ==
  IF i > Len(s) THEN ""
  ELSE IF UuidAt(s, i) THEN RemoveUuidsFrom(s, i + 36)
  ELSE SubSeq(s, i, i) \o RemoveUuidsFrom(s, i + 1)

EndsWith(s, c) == Len(s) >= 1 /\ SubSeq(s, Len(s), Len(s)) = c

abstractLabelOf(raw) ==
  LET Label(words, label) ==
        IF EndsWith(label, ".") \/ Len(label) > 50 THEN JoinWords(Take(words, 2)) ELSE label
      FromWords(words) == IF Len(words) < 2 THEN NoTheme ELSE Label(words, JoinWords(words))
      Pick(s, hits) ==
        IF Len(s) < 3 THEN NoTheme
        ELSE IF hits # {} THEN KEYWORD_TO_THEME[CHOOSE k \in hits : \A m \in hits : k <= m].theme
        ELSE FromWords(Take(SplitWords(s), 5))
      Keywords(s, lower) ==
        Pick(s, { k \in 1..Len(KEYWORD_TO_THEME) :
                    \E kw \in KEYWORD_TO_THEME[k].keywords : Includes(lower, kw) })
      Cleaned(s) == Keywords(s, lowerCaseOf(s))
  IN  Cleaned(Trim(RemoveUuidsFrom(RemoveNumbersFrom(StripQuotes(raw), 1), 1)))

\* toAbstractLabel, tabulated once for the drawn comments
AbstractLabelTable == [c \in SampleComments |-> abstractLabelOf(c)]

toAbstractLabel(raw) == AbstractLabelTable[raw]

(***************************************************************************)
(* aggregateThemes(todayItems, yesterdayItems).                            *)
(***************************************************************************)
\* the key of a row in themeMap and yesterdayByTheme: toAbstractLabel(comment) ?? 'Other'
ThemeKey(r) ==
  LET Key(label) == IF label = NoTheme THEN "Other" ELSE label
  IN  Key(toAbstractLabel(r.comment))

aggregateThemes(todayItems, yesterdayItems) ==
  LET TallyOf(rows, negatives) ==
        [total |-> Len(rows),
         enterprise |-> enterpriseCountOf(rows),
         selfServe |-> Len(rows) - enterpriseCountOf(rows),
         negative |-> Len(negatives)]
      Aggregate(yesterdayKeys, themes) ==
        [i \in 1..Len(themes) |->
           LET InTheme(r) == ThemeKey(r) = themes[i]
               IsNegativeIn(r) == InTheme(r) /\ toLowerCase(r.sentiment) = "negative"
           IN  aggregateOf(themes[i],
                           TallyOf(SelectSeq(todayItems, InTheme), SelectSeq(todayItems, IsNegativeIn)),
                           Cardinality({ k \in 1..Len(yesterdayKeys) : yesterdayKeys[k] = themes[i] }))]
  IN  Aggregate([i \in 1..Len(yesterdayItems) |-> ThemeKey(yesterdayItems[i])],
                FirstOccurrences([i \in 1..Len(todayItems) |-> ThemeKey(todayItems[i])]))

(***************************************************************************)
(* Dates.  A calendar day (the YYYY-MM-DD string of the source) is the     *)
(* number of the day; '' (an unparsable timestamp) is -1.                  *)
(***************************************************************************)
DayMs == 86400000

\* new Date(ms).toISOString().slice(0, 10)
dateOf(ms) == ms \div DayMs

getTodayYesterdayDates(now) == [today |-> dateOf(now), yesterday |-> dateOf(now - DayMs)]

\* dateOfTimestamp: a negative timestamp stands for a string Date cannot parse
dateOfTimestamp(ts) == IF ts < 0 THEN -1 ELSE dateOf(ts)

(***************************************************************************)
(* The cache slots.                                                        *)
(***************************************************************************)
CACHE_TTL_MS == 30000
DASHBOARD_CACHE_TTL_MS == 120000
EXEC_SUMMARY_CACHE_TTL_MS == 300000

\* the validity test that ignores the date of the entry
dashboardCacheValidNoDate(cache, today, now) ==
  cache # Null /\ now - cache.cachedAt < DASHBOARD_CACHE_TTL_MS

\* the validity test with <= for <
dashboardCacheValidInclusive(cache, today, now) ==
  cache # Null /\ cache.date = today /\ now - cache.cachedAt <= DASHBOARD_CACHE_TTL_MS

\* line 561
dashboardCacheValid(cache, today, now) ==
  cache # Null /\ cache.date = today /\ now - cache.cachedAt < DASHBOARD_CACHE_TTL_MS

\* the validity test of the summary entry with the lifetime of the report entry
execSummaryCacheValidShortTtl(cache, today, now) ==
  cache # Null /\ cache.date = today /\ now - cache.cachedAt < DASHBOARD_CACHE_TTL_MS

\* line 620
execSummaryCacheValid(cache, today, now) ==
  cache # Null /\ cache.date = today /\ now - cache.cachedAt < EXEC_SUMMARY_CACHE_TTL_MS

(***************************************************************************)
(* The report of GET / (lines 587-687).  The page is the record of the     *)
(* data it renders.                                                        *)
(***************************************************************************)
\* trendText
trendText(percentChange, riskLevel) ==
  IF percentChange >= 100 THEN "significant increase"
  ELSE IF percentChange >= 25
    THEN (IF riskLevel = "Critical" THEN "significant increase" ELSE "increase")
  ELSE IF percentChange > -25 THEN "no major change"
  ELSE "decrease"

\* the context of the prompt of generateExecutiveSummary (lines 520-525)
summaryContext(top3) ==
  [i \in 1..Len(top3) |->
     [theme |-> top3[i].theme,
      total_mentions |-> top3[i].total_mentions,
      enterprise_mentions |-> top3[i].enterprise_mentions,
      risk_level |-> top3[i].risk_level,
      trend |-> trendText(top3[i].percent_change_vs_yesterday, top3[i].risk_level)]]

\* What env.AI.run gives generateExecutiveSummary: it throws, its text is empty once
\* cleaned, or it is a text.
ExecReplies == {"throws", "empty", "summary A"}

\* generateExecutiveSummary(env, top3), given the oracle's reply; a generated text is
\* kept together with the context it was asked about
generateExecutiveSummary(top3, reply) ==
  IF reply = "throws"
    THEN [text |-> "Executive summary could not be generated.", context |-> <<>>]
  ELSE IF reply = "empty"
    THEN [text |-> "No executive summary available.", context |-> <<>>]
  ELSE [text |-> reply, context |-> summaryContext(top3)]

\* the rows of a calendar day (lines 587-588)
itemsOfDay(feedbackItems, day) ==
  LET OnDay(r) == dateOfTimestamp(r.timestamp) = day
  IN  SelectSeq(feedbackItems, OnDay)

\* lines 594-607
top3Of(feedbackItems, today, yesterday) ==
  selectTop3(withRisk(aggregateThemes(itemsOfDay(feedbackItems, today),
                                      itemsOfDay(feedbackItems, yesterday))))

\* lines 627-628
recurringLinesOf(aggregatedWithRisk) ==
  LET Lines(top) ==
        [i \in 1..Len(top) |-> [theme |-> top[i].val.theme, mentions |-> top[i].val.total_mentions]]
  IN  Lines(Take(SortDesc([i \in 1..Len(aggregatedWithRisk) |->
                             [key |-> aggregatedWithRisk[i].total_mentions,
                              val |-> aggregatedWithRisk[i]]]),
                 5))

\* lines 630-636
sourceBreakdownOf(todayItems) ==
  LET CountOf(src) == Cardinality({ i \in 1..Len(todayItems) : todayItems[i].source = src })
      Lines(keyed) == [i \in 1..Len(keyed) |-> [source |-> keyed[i].val, count |-> keyed[i].key]]
      Sorted(sources) ==
        Lines(SortDesc([i \in 1..Len(sources) |-> [key |-> CountOf(sources[i]), val |-> sources[i]]]))
  IN  Sorted(FirstOccurrences([i \in 1..Len(todayItems) |-> todayItems[i].source]))

\* lines 639-687
reportHtml(feedbackItems, today, yesterday, executiveSummaryText) ==
  LET Page(todayItems, aggregatedWithRisk, top3) ==
        [page |-> "report",
         dailyBrief |-> [todayCount |-> Len(todayItems),
                         todaySourceCount |->
                           Cardinality({ todayItems[i].source : i \in 1..Len(todayItems) })],
         headlines |-> top3,
         executiveSummary |-> executiveSummaryText,
         trendSnapshot |-> [i \in 1..Len(top3) |->
                              [theme |-> top3[i].theme,
                               yesterday |-> top3[i].yesterday_mentions,
                               today |-> top3[i].total_mentions]],
         recurring |-> recurringLinesOf(aggregatedWithRisk),
         sourceBreakdown |-> sourceBreakdownOf(todayItems)]
      WithAggregates(todayItems, aggregatedWithRisk) ==
        Page(todayItems, aggregatedWithRisk, selectTop3(aggregatedWithRisk))
      WithItems(todayItems, yesterdayItems) ==
        WithAggregates(todayItems, withRisk(aggregateThemes(todayItems, yesterdayItems)))
  IN  WithItems(itemsOfDay(feedbackItems, today), itemsOfDay(feedbackItems, yesterday))

\* lines 573-581
emptyHtml == [page |-> "empty", message |-> "No feedback has been recorded yet."]

\* lines 696-705
errorHtml ==
  [page |-> "error", message |-> "Failed to load dashboard",
   hint |-> "npx wrangler d1 migrations apply FEEDBACK_DB"]

(***************************************************************************)
(* The Summary of GET /api/summary.                                        *)
(***************************************************************************)
\* s.slice(0, n) + (s.length > n ? '...' : '')
Clip(str, n) == IF Len(str) > n THEN SubSeq(str, 1, n) \o "..." ELSE str

\* summaryFromFeedback
summaryFromFeedback(items) ==
  LET IsPos(r) == toLowerCase(r.sentiment) = "positive"
      IsNeg(r) == toLowerCase(r.sentiment) = "negative"
      Issues(first5) == [i \in 1..Len(first5) |-> Clip(first5[i].comment, 80)]
      Entry(source, forSource, pos, neg) ==
        [source |-> source,
         total_items |-> Len(forSource),
         dominant_sentiment |-> IF 2 * neg > Len(forSource) THEN "negative"
                                ELSE IF 2 * pos > Len(forSource) THEN "positive"
                                ELSE "neutral",
         key_issues |-> Issues(Take(forSource, 5))]
      Counted(source, forSource) ==
        Entry(source, forSource, Len(SelectSeq(forSource, IsPos)), Len(SelectSeq(forSource, IsNeg)))
      BySource(source) ==
        LET From(r) == r.source = source
        IN  Counted(source, SelectSeq(items, From))
      Urgent(first5) ==
        [i \in 1..Len(first5) |-> first5[i].source \o ": " \o Clip(first5[i].comment, 60)]
      Summary(sources) ==
        [overall_summary |->
           IF Len(items) = 0 THEN "No feedback has been recorded yet."
           ELSE ToString(Len(items)) \o " feedback item" \o (IF Len(items) # 1 THEN "s" ELSE "")
                \o " from " \o JoinWith(sources, ", ") \o ".",
         by_source |-> [i \in 1..Len(sources) |-> BySource(sources[i])],
         top_urgent_issues |-> Urgent(Take(items, 5))]
  IN  Summary(FirstOccurrences([i \in 1..Len(items) |-> items[i].source]))

\* normalizeSummary: every field of parsed that is missing or empty is the fallback's
normalizeSummary(parsed, feedbackItems) ==
  LET Normalize(fallback) ==
        [overall_summary |-> IF parsed.overall_summary # "" THEN parsed.overall_summary
                             ELSE fallback.overall_summary,
         by_source |-> IF Len(parsed.by_source) > 0 THEN parsed.by_source ELSE fallback.by_source,
         top_urgent_issues |-> IF Len(parsed.top_urgent_issues) > 0 THEN parsed.top_urgent_issues
                               ELSE fallback.top_urgent_issues]
  IN  Normalize(summaryFromFeedback(feedbackItems))

\* What env.AI.run gives the /api/summary handler: it throws, or its text is not JSON,
\* or parses to an object with some or all of the fields of Summary.
SummaryReplies == {"throws", "garbage", "partial", "full"}

\* parseAiJson of the replies that parse; a missing field is empty
parsedSummary(reply) ==
  IF reply = "full"
    THEN [overall_summary |-> "Login problems dominate.",
          by_source |-> <<[source |-> "email", total_items |-> 2,
                           dominant_sentiment |-> "negative",
                           key_issues |-> <<"Login fails">>]>>,
          top_urgent_issues |-> <<"Login failures">>]
    ELSE [overall_summary |-> "Login problems dominate.",
          by_source |-> <<>>,
          top_urgent_issues |-> <<>>]

(***************************************************************************)
(* The worker: requests on the four routes, the clock and the table.       *)
(* The bindings FEEDBACK_DB and AI are configured and ASSETS is not, so a  *)
(* request reaches the handler of its route.  A handler runs from one      *)
(* await to the next in one step.                                          *)
(***************************************************************************)
ReqIds == 1..MaxRequests

\* the clock starts one millisecond before midnight of day 1
StartClock == 2 * DayMs - 1

\* the instants at which the clock is observed: the last millisecond of day 1, midnight,
\* and the instants just before and at the expiry of an entry cached at midnight
Instants == {StartClock, StartClock + 1,
             StartClock + DASHBOARD_CACHE_TTL_MS, StartClock + 1 + DASHBOARD_CACHE_TTL_MS,
             StartClock + EXEC_SUMMARY_CACHE_TTL_MS, StartClock + 1 + EXEC_SUMMARY_CACHE_TTL_MS}

Row(source, sentiment, comment, day) ==
  [source |-> source, sentiment |-> sentiment, comment |-> comment, timestamp |-> day * DayMs]

\* the feedback table as it grows, newest rows first (ORDER BY timestamp DESC)
TableA == <<Row("email", "negative", "Login fails", 1),
            Row("Discord", "negative", "API timeout", 1),
            Row("email", "positive", "docs scattered", 1),
            Row("Discord", "neutral", "love it", 1),
            Row("email", "negative", "Login fails", 0)>>

TableB == <<Row("Discord", "negative", "Login fails", 2),
            Row("email", "negative", "email alerts late", 1)>> \o TableA

Tables == <<<<>>, TableA, TableB>>

\* a request slot: the locals of the handler while it runs (today, yesterday, now,
\* items), what the request did (storage reads, oracle calls, their failures) and its
\* response
IdleReq ==
  [path |-> "", pc |-> "idle", today |-> 0, yesterday |-> 0, now |-> 0, items |-> <<>>,
   reads |-> 0, readOk |-> FALSE, oracle |-> 0, oracleFailed |-> FALSE, resp |-> Null]

\* the handler of q returns resp; the slot keeps what the request did: the date it
\* took for today and the rows it read
Done(q, resp) ==
  [IdleReq EXCEPT !.path = q.path, !.pc = "done", !.resp = resp,
                  !.today = q.today, !.items = q.items,
                  !.reads = q.reads, !.readOk = q.readOk,
                  !.oracle = q.oracle, !.oracleFailed = q.oracleFailed]

\* a request enters a handler that does not read the clock
Entered(path) == [IdleReq EXCEPT !.path = path, !.pc = "db"]

\* lines 559-560: a request enters the handler of '/', which reads the clock
NewReq(path) ==
  LET At(dates) ==
        [Entered(path) EXCEPT !.today = dates.today, !.yesterday = dates.yesterday, !.now = clock]
  IN  At(getTodayYesterdayDates(clock))

Free(r) == reqs[r].pc \in {"idle", "done"}

Init ==
  /\ clock = StartClock
  /\ feedback \in Range(Tables)
  /\ cachedSummary = Null
  /\ cachedAt = 0
  /\ dashboardCache = Null
  /\ execSummaryCache = Null
  /\ reqs = [r \in ReqIds |-> IdleReq]
  /\ KpiIdle /\ ClsIdle /\ HlIdle /\ AgIdle /\ RkIdle

\* time passes
Tick ==
  /\ \E t \in Instants : t > clock /\ clock' = t
  /\ UNCHANGED <<feedback, cacheVars, reqs, notMain>>

\* rows are inserted into the table
InsertFeedback ==
  /\ \E k \in 1..(Len(Tables) - 1) : feedback = Tables[k] /\ feedback' = Tables[k + 1]
  /\ UNCHANGED <<clock, cacheVars, reqs, notMain>>

(***************************************************************************)
(* GET /                                                                   *)
(***************************************************************************)
\* lines 559-569: the cache test; a fresh entry is the response, else the read starts
RootStart(r) ==
  /\ Free(r)
  /\ LET Enter(q) ==
           reqs' = [reqs EXCEPT ![r] =
             IF dashboardCacheValid(dashboardCache, q.today, q.now)
               THEN Done(q, [status |-> 200, html |-> dashboardCache.html, fromCache |-> TRUE])
               ELSE q]
     IN  Enter(NewReq("/"))
  /\ UNCHANGED <<clock, feedback, cacheVars, notMain>>

\* what the handler does once executiveSummaryText is known (lines 624-693 after 623):
\* the new cache entries and the response
RootFinish(r, q, executiveSummaryText, generated) ==
  LET Store(html) ==
        /\ execSummaryCache' =
             IF generated
               THEN [date |-> q.today, text |-> executiveSummaryText, cachedAt |-> clock]
               ELSE execSummaryCache
        /\ dashboardCache' = [date |-> q.today, html |-> html, cachedAt |-> clock]
        /\ reqs' = [reqs EXCEPT ![r] =
             Done(q, [status |-> 200, html |-> html, fromCache |-> FALSE])]
  IN  Store(reportHtml(q.items, q.today, q.yesterday, executiveSummaryText))

\* RootRead without the empty-table branch of lines 572-585
RootReadNoEmptyPage(r) ==
  /\ reqs[r].path = "/" /\ reqs[r].pc = "db"
  /\ LET q == [reqs[r] EXCEPT !.items = feedback, !.reads = @ + 1, !.readOk = TRUE]
     IN  IF execSummaryCacheValid(execSummaryCache, q.today, q.now)
           THEN RootFinish(r, q, execSummaryCache.text, FALSE)
         ELSE /\ reqs' = [reqs EXCEPT ![r] = [q EXCEPT !.pc = "ai", !.oracle = @ + 1]]
              /\ UNCHANGED <<dashboardCache, execSummaryCache>>
  /\ UNCHANGED <<clock, feedback, cachedSummary, cachedAt, notMain>>

\* lines 567-625: the read resolves; no rows give the empty page, a fresh summary
\* entry completes the report, else the oracle is asked
RootRead(r) ==
  /\ reqs[r].path = "/" /\ reqs[r].pc = "db"
  /\ LET q == [reqs[r] EXCEPT !.items = feedback, !.reads = @ + 1, !.readOk = TRUE]
     IN  IF Len(feedback) = 0
           THEN /\ reqs' = [reqs EXCEPT ![r] =
                     Done(q, [status |-> 200, html |-> emptyHtml, fromCache |-> FALSE])]
                /\ UNCHANGED <<dashboardCache, execSummaryCache>>
         ELSE IF execSummaryCacheValid(execSummaryCache, q.today, q.now)
           THEN RootFinish(r, q, execSummaryCache.text, FALSE)
         ELSE /\ reqs' = [reqs EXCEPT ![r] = [q EXCEPT !.pc = "ai", !.oracle = @ + 1]]
              /\ UNCHANGED <<dashboardCache, execSummaryCache>>
  /\ UNCHANGED <<clock, feedback, cachedSummary, cachedAt, notMain>>

\* lines 694-710: the read rejects
RootReadFails(r) ==
  /\ reqs[r].path = "/" /\ reqs[r].pc = "db"
  /\ reqs' = [reqs EXCEPT ![r] =
       Done([@ EXCEPT !.reads = @ + 1],
            [status |-> 500, html |-> errorHtml, fromCache |-> FALSE])]
  /\ UNCHANGED <<clock, feedback, cacheVars, notMain>>

\* lines 527-534 and 624-693: the oracle answers
RootOracleAnswers(r) ==
  /\ reqs[r].path = "/" /\ reqs[r].pc = "ai"
  /\ \E reply \in ExecReplies \ {"throws"} :
       RootFinish(r, reqs[r],
                  generateExecutiveSummary(top3Of(reqs[r].items, reqs[r].today, reqs[r].yesterday), reply),
                  TRUE)
  /\ UNCHANGED <<clock, feedback, cachedSummary, cachedAt, notMain>>

\* RootOracleThrows that leaves the summary entry as it was
RootOracleThrowsNoStore(r) ==
  /\ reqs[r].path = "/" /\ reqs[r].pc = "ai"
  /\ RootFinish(r, [reqs[r] EXCEPT !.oracleFailed = TRUE],
                generateExecutiveSummary(top3Of(reqs[r].items, reqs[r].today, reqs[r].yesterday), "throws"),
                FALSE)
  /\ UNCHANGED <<clock, feedback, cachedSummary, cachedAt, notMain>>

\* lines 535-537 and 624-693: the oracle call rejects
RootOracleThrows(r) ==
  /\ reqs[r].path = "/" /\ reqs[r].pc = "ai"
  /\ RootFinish(r, [reqs[r] EXCEPT !.oracleFailed = TRUE],
                generateExecutiveSummary(top3Of(reqs[r].items, reqs[r].today, reqs[r].yesterday), "throws"),
                TRUE)
  /\ UNCHANGED <<clock, feedback, cachedSummary, cachedAt, notMain>>

(***************************************************************************)
(* GET /api/feedback                                                       *)
(***************************************************************************)
FeedbackStart(r) ==
  /\ Free(r)
  /\ reqs' = [reqs EXCEPT ![r] = Entered("/api/feedback")]
  /\ UNCHANGED <<clock, feedback, cacheVars, notMain>>

\* lines 725-739
FeedbackRead(r) ==
  /\ reqs[r].path = "/api/feedback" /\ reqs[r].pc = "db"
  /\ reqs' = [reqs EXCEPT ![r] =
       Done([@ EXCEPT !.reads = @ + 1, !.readOk = TRUE], [status |-> 200, rows |-> feedback])]
  /\ UNCHANGED <<clock, feedback, cacheVars, notMain>>

\* lines 740-750
FeedbackReadFails(r) ==
  /\ reqs[r].path = "/api/feedback" /\ reqs[r].pc = "db"
  /\ reqs' = [reqs EXCEPT ![r] =
       Done([@ EXCEPT !.reads = @ + 1],
            [status |-> 500, error |-> "Failed to read feedback from D1",
             hint |-> "npx wrangler d1 migrations apply FEEDBACK_DB --remote"])]
  /\ UNCHANGED <<clock, feedback, cacheVars, notMain>>

(***************************************************************************)
(* GET /api/summary                                                        *)
(***************************************************************************)
SummaryStart(r) ==
  /\ Free(r)
  /\ reqs' = [reqs EXCEPT ![r] = Entered("/api/summary")]
  /\ UNCHANGED <<clock, feedback, cacheVars, notMain>>

\* lines 775-825: the read resolves; no rows give the no-data Summary, else the oracle
\* is asked
SummaryRead(r) ==
  /\ reqs[r].path = "/api/summary" /\ reqs[r].pc = "db"
  /\ LET q == [reqs[r] EXCEPT !.items = feedback, !.reads = @ + 1, !.readOk = TRUE]
     IN  reqs' = [reqs EXCEPT ![r] =
           IF Len(feedback) = 0
             THEN Done(q, [status |-> 200,
                           summary |-> [overall_summary |-> "No feedback has been recorded yet.",
                                        by_source |-> <<>>,
                                        top_urgent_issues |-> <<>>]])
             ELSE [q EXCEPT !.pc = "ai", !.oracle = @ + 1]]
  /\ UNCHANGED <<clock, feedback, cacheVars, notMain>>

\* lines 825 and 846-855: the read rejects
SummaryReadFails(r) ==
  /\ reqs[r].path = "/api/summary" /\ reqs[r].pc = "db"
  /\ reqs' = [reqs EXCEPT ![r] =
       Done([@ EXCEPT !.reads = @ + 1],
            [status |-> 500, error |-> "Failed to generate summary from AI"])]
  /\ UNCHANGED <<clock, feedback, cacheVars, notMain>>

\* lines 827-845: the oracle answers; text that is not JSON gives the Summary computed
\* from the rows
SummaryOracleAnswers(r) ==
  /\ reqs[r].path = "/api/summary" /\ reqs[r].pc = "ai"
  /\ \E reply \in SummaryReplies \ {"throws"} :
       reqs' = [reqs EXCEPT ![r] =
         Done([@ EXCEPT !.oracleFailed = (reply = "garbage")],
              [status |-> 200,
               summary |-> IF reply = "garbage"
                             THEN summaryFromFeedback(reqs[r].items)
                             ELSE normalizeSummary(parsedSummary(reply), reqs[r].items)])]
  /\ UNCHANGED <<clock, feedback, cacheVars, notMain>>

\* lines 825 and 846-855: the oracle call rejects, outside the inner try
SummaryOracleThrows(r) ==
  /\ reqs[r].path = "/api/summary" /\ reqs[r].pc = "ai"
  /\ reqs' = [reqs EXCEPT ![r] =
       Done([@ EXCEPT !.oracleFailed = TRUE],
            [status |-> 500, error |-> "Failed to generate summary from AI"])]
  /\ UNCHANGED <<clock, feedback, cacheVars, notMain>>

(***************************************************************************)
(* GET /api/kpi-themes                                                     *)
(***************************************************************************)
KpiThemesStart(r) ==
  /\ Free(r)
  /\ reqs' = [reqs EXCEPT ![r] = Entered("/api/kpi-themes")]
  /\ UNCHANGED <<clock, feedback, cacheVars, notMain>>

\* lines 876-912
KpiThemesRead(r) ==
  /\ reqs[r].path = "/api/kpi-themes" /\ reqs[r].pc = "db"
  /\ reqs' = [reqs EXCEPT ![r] =
       Done([@ EXCEPT !.reads = @ + 1, !.readOk = TRUE], kpiThemes(feedback))]
  /\ UNCHANGED <<clock, feedback, cacheVars, notMain>>

\* lines 913-919
KpiThemesReadFails(r) ==
  /\ reqs[r].path = "/api/kpi-themes" /\ reqs[r].pc = "db"
  /\ reqs' = [reqs EXCEPT ![r] = Done([@ EXCEPT !.reads = @ + 1], kpiThemesError)]
  /\ UNCHANGED <<clock, feedback, cacheVars, notMain>>

\* the dashboard: concurrent requests for '/', the clock and the table
Next ==
  \/ Tick
  \/ InsertFeedback
  \/ \E r \in ReqIds :
       \/ RootStart(r) \/ RootRead(r) \/ RootReadFails(r)
       \/ RootOracleAnswers(r) \/ RootOracleThrows(r)

Spec == Init /\ [][Next]_vars

\* the JSON endpoints: they share no state with '/' but the table, and read no clock
ApiNext ==
  \/ InsertFeedback
  \/ \E r \in ReqIds :
       \/ FeedbackStart(r) \/ FeedbackRead(r) \/ FeedbackReadFails(r)
       \/ SummaryStart(r) \/ SummaryRead(r) \/ SummaryReadFails(r)
       \/ SummaryOracleAnswers(r) \/ SummaryOracleThrows(r)
       \/ KpiThemesStart(r) \/ KpiThemesRead(r) \/ KpiThemesReadFails(r)

SpecApi == Init /\ [][ApiNext]_vars

\* the worker with its four routes; the JSON endpoints keep no state between requests
\* and are served in one slot, while requests for '/' run in every slot
WorkerNext ==
  \/ Tick
  \/ InsertFeedback
  \/ \E r \in ReqIds :
       \/ RootStart(r) \/ RootRead(r) \/ RootReadFails(r)
       \/ RootOracleAnswers(r) \/ RootOracleThrows(r)
  \/ \E r \in {MaxRequests} :
       \/ FeedbackStart(r) \/ FeedbackRead(r) \/ FeedbackReadFails(r)
       \/ SummaryStart(r) \/ SummaryRead(r) \/ SummaryReadFails(r)
       \/ SummaryOracleAnswers(r) \/ SummaryOracleThrows(r)
       \/ KpiThemesStart(r) \/ KpiThemesRead(r) \/ KpiThemesReadFails(r)

SpecWorker == Init /\ [][WorkerNext]_vars

(***************************************************************************)
(* Aggregation and rendering of one table (lines 587-628), and the theme   *)
(* each of the two classifiers gives a comment.  The table holds rows of   *)
(* today followed by rows of yesterday (ORDER BY timestamp DESC).          *)
(***************************************************************************)
AgDates == getTodayYesterdayDates(StartClock)

TodayRows ==
  { Row(src, sen, c, AgDates.today) : src \in KpiSources, sen \in {"negative", "positive"},
                                      c \in AgComments }

\* yesterday's rows count by their theme alone (lines 297-300)
YesterdayRows == { Row("email", "negative", c, AgDates.yesterday) : c \in AgComments }

AgInit ==
  /\ agItems \in { t \o y : t \in SeqsUpTo(TodayRows, MaxToday),
                            y \in SeqsUpTo(YesterdayRows, MaxYesterday) }
  /\ agOut = Null
  /\ agLabels = Null
  /\ KpiIdle /\ ClsIdle /\ HlIdle /\ MainIdle /\ RkIdle

\* the rows of today in the order perm, followed by the rest of the table
Reordered(items, perm) ==
  [i \in 1..Len(items) |-> IF i \in DOMAIN perm THEN items[perm[i]] ELSE items[i]]

\* lines 587-628 on the table, and lines 587-607 on the same rows in another order
AggregateAndRender ==
  /\ agOut = Null
  /\ \E perm \in Permutations(1..Len(itemsOfDay(agItems, AgDates.today))) :
       agOut' = [aggregated |-> aggregateThemes(itemsOfDay(agItems, AgDates.today),
                                                itemsOfDay(agItems, AgDates.yesterday)),
                 page |-> reportHtml(agItems, AgDates.today, AgDates.yesterday, ""),
                 perm |-> perm,
                 reorderedTop3 |->
                   top3Of(Reordered(agItems, perm), AgDates.today, AgDates.yesterday)]
  /\ UNCHANGED <<agItems, agLabels, notAg>>

\* toAbstractLabel (line 281) and getThemeForCommentBackend (line 420) of every row
LabelComments ==
  /\ agLabels = Null
  /\ agLabels' = [rows |-> [i \in 1..Len(agItems) |->
                              [aggregator |-> toAbstractLabel(agItems[i].comment),
                               resolver |-> getThemeForCommentBackend(agItems[i].comment)]]]
  /\ UNCHANGED <<agItems, agOut, notAg>>

AgNext == AggregateAndRender \/ LabelComments

SpecAggregate == AgInit /\ [][AgNext]_vars

(***************************************************************************)
(* Properties of the bucket classifier (SpecClassify).                     *)
(***************************************************************************)
\* the canonical label the classifier derives from the oracle's issue
ReplyProcessed(reply) == OracleLabelTable[reply.issue].processed

ReplyCanonical(reply) == OracleLabelTable[reply.issue].canonical

\* how many rows of the bucket the deterministic classifier gives the theme
RowsWithTheme(items, theme) ==
  Cardinality({ i \in 1..Len(items) : getThemeForCommentBackend(items[i].comment) = theme })

\* the oracle call failed or its answer is rejected
OracleRejected(items, excludeThemes, reply) ==
  \/ reply.kind = "throws"
  \/ reply.kind = "garbage"
  \/ ~reply.hasIssue
  \/ Trim(reply.issue) = ""
  \/ reply.indices = <<>>
  \/ Len(SplitWords(ReplyProcessed(reply))) > 5
  \/ ReplyCanonical(reply) \in excludeThemes
  \/ 20 * RowsWithTheme(items, ReplyCanonical(reply)) < Len(items)

\* C5: generateThemeWithCount never throws, and for a non-empty bucket a failed or
\* rejected oracle answer (thrown, unparsable, no label, no indices, more than 5 words,
\* excluded label, under 5% of the bucket) yields exactly
\* fallbackThemeAndCount(items, excluded, preferred).
ClassifierFallsBack ==
  clsReply # Null =>
    /\ clsResult # Thrown
    /\ (Len(clsItems) > 0 /\ OracleRejected(clsItems, clsExclude, clsReply))
         => clsResult = fallbackThemeAndCount(clsItems, clsExclude, clsPrefer)

\* the oracle named a theme that one row of a bucket of more than 20 rows has, and the
\* classifier answered with the majority theme instead
ClassifierFallsBackWitness ==
  /\ clsReply # Null
  /\ clsReply.kind = "json" /\ clsReply.hasIssue /\ clsReply.indices # <<>>
  /\ ReplyCanonical(clsReply) \notin clsExclude
  /\ RowsWithTheme(clsItems, ReplyCanonical(clsReply)) >= 1
  /\ 20 * RowsWithTheme(clsItems, ReplyCanonical(clsReply)) < Len(clsItems)
  /\ clsResult # Null
  /\ clsResult.label # ReplyCanonical(clsReply)

(***************************************************************************)
(* Properties of GET /api/kpi-themes (SpecKpi).                            *)
(***************************************************************************)
KpiAnswered == kpiPc = "done" /\ kpiResp.status = 200

\* the labels a KPI response carries: critical, monitor, then each low issue
KpiLabels(resp) ==
  (IF resp.critical = Null THEN <<>> ELSE <<resp.critical.label>>)
  \o (IF resp.monitor = Null THEN <<>> ELSE <<resp.monitor.label>>)
  \o (IF resp.low = Null THEN <<>>
      ELSE [i \in 1..Len(resp.low.issues) |-> resp.low.issues[i].label])

RowsOfSentiment(items, sentiment) ==
  { i \in 1..Len(items) : toLowerCase(items[i].sentiment) = sentiment }

\* C6: no two labels of one KPI response (critical, monitor, low issues) are equal.
KpiLabelsDistinct ==
  KpiAnswered =>
    LET labels == KpiLabels(kpiResp)
    IN  \A i, j \in 1..Len(labels) : i # j => labels[i] # labels[j]

\* a neutral row has the theme the Critical bucket resolved to, and Monitor still
\* resolved to a label
KpiLabelsDistinctWitness ==
  /\ KpiAnswered
  /\ kpiResp.critical # Null /\ kpiResp.monitor # Null
  /\ \E i \in RowsOfSentiment(kpiItems, "neutral") :
       getThemeForCommentBackend(kpiItems[i].comment) = kpiResp.critical.label

KpiOracleBeforeFallback ==
  (KpiAnswered /\ RowsOfSentiment(kpiItems, "negative") # {}) =>
    /\ kpiResp.calls # <<>>
    /\ kpiResp.calls[1].fn = "generateThemeWithCount"
    /\ kpiResp.calls[1].bucket = "critical"
    /\ kpiResp.calls[1].exclude = {}

(***************************************************************************)
(* Properties of the headline selection (SpecHeadline).                    *)
(***************************************************************************)
Min(a, b) == IF a < b THEN a ELSE b

\* C9: the selection returns exactly min(3, number of themes) entries, no theme twice.
HeadlinesCountAndDistinct ==
  hlTop3 # Null =>
    LET top3 == hlTop3.themes
    IN  /\ Len(top3) = Min(3, Len(hlAggregated))
        /\ \A i, j \in 1..Len(top3) : i # j => top3[i].theme # top3[j].theme

\* more than three themes, and the best Low Impact theme took the third slot
HeadlinesCountWitness ==
  /\ hlTop3 # Null
  /\ Len(hlAggregated) > 3
  /\ Len(hlTop3.themes) = 3
  /\ IsLowImpact(hlTop3.themes[3])
  /\ ~IsLowImpact(hlTop3.themes[2])

RootEnters(r) == Free(r) /\ reqs'[r] # reqs[r] /\ reqs'[r].path = "/"

\* the step is the read of a request for '/' in slot r completing the report with the
\* narrative summary of the cache, without the oracle
RootUsesCachedSummary(r) ==
  /\ reqs[r].path = "/" /\ reqs[r].pc = "db"
  /\ reqs'[r].pc = "done" /\ reqs'[r].resp.status = 200
  /\ reqs'[r].resp.html.page = "report"

\* C1: a full-report entry or a narrative-summary entry is served only to a request
\* whose UTC date at its start is the date of the entry, whatever the age of the entry.
CacheServedOnItsDateOnly ==
  [][\A r \in ReqIds :
       /\ (RootEnters(r) /\ reqs'[r].pc = "done" /\ reqs'[r].resp.fromCache)
            => /\ dashboardCache # Null
               /\ reqs'[r].resp.html = dashboardCache.html
               /\ dashboardCache.date = dateOf(clock)
       /\ RootUsesCachedSummary(r)
            => /\ execSummaryCache # Null
               /\ reqs'[r].resp.html.executiveSummary = execSummaryCache.text
               /\ reqs[r].today = dateOf(reqs[r].now)
               /\ execSummaryCache.date = reqs[r].today]_vars

\* a request for '/' is past the cache test while both caches hold entries of another
\* date that are younger than their TTLs
CacheOfOtherDateWitness ==
  \E r \in ReqIds :
    /\ reqs[r].path = "/" /\ reqs[r].pc = "db" /\ reqs[r].now = clock
    /\ dashboardCache # Null /\ execSummaryCache # Null
    /\ dashboardCache.date # reqs[r].today
    /\ execSummaryCache.date # reqs[r].today
    /\ reqs[r].now - dashboardCache.cachedAt < DASHBOARD_CACHE_TTL_MS
    /\ reqs[r].now - execSummaryCache.cachedAt < EXEC_SUMMARY_CACHE_TTL_MS

\* C2: a request for '/' is answered with the stored report, with no read of storage
\* and no call of the oracle, exactly when the full-report entry exists, has the date
\* of today and is less than 120000 ms old; otherwise the request goes on to read
\* storage, and every response that is not the stored report has read storage once.
StoredReportExactlyWhenFresh ==
  [][\A r \in ReqIds :
       LET fresh == /\ dashboardCache # Null
                    /\ dashboardCache.date = dateOf(clock)
                    /\ clock - dashboardCache.cachedAt < DASHBOARD_CACHE_TTL_MS
       IN  /\ (RootEnters(r) /\ fresh)
                => /\ reqs'[r].pc = "done"
                   /\ reqs'[r].resp = [status |-> 200, html |-> dashboardCache.html,
                                       fromCache |-> TRUE]
                   /\ reqs'[r].reads = 0 /\ reqs'[r].oracle = 0
           /\ (RootEnters(r) /\ ~fresh)
                => reqs'[r].pc = "db" /\ reqs'[r].reads = 0
           /\ (reqs'[r].path = "/" /\ reqs'[r].pc = "done" /\ ~reqs'[r].resp.fromCache)
                => reqs'[r].reads = 1
           /\ (reqs'[r].path = "/" /\ reqs'[r].pc = "ai")
                => reqs'[r].reads = 1]_vars

\* one request was answered with the stored report and another, entering when the
\* entry of today is exactly 120000 ms old, is on its way to storage
StoredReportBoundaryWitness ==
  \E r1, r2 \in ReqIds :
    /\ reqs[r1].path = "/" /\ reqs[r1].pc = "done" /\ reqs[r1].resp.fromCache
    /\ reqs[r2].path = "/" /\ reqs[r2].pc = "db" /\ reqs[r2].now = clock
    /\ dashboardCache # Null
    /\ dashboardCache.date = reqs[r2].today
    /\ reqs[r2].now - dashboardCache.cachedAt = DASHBOARD_CACHE_TTL_MS

\* C3: every Summary that /api/summary computed with success is in the
\* structured-summary cache.
SummaryStoredInCache ==
  \A r \in ReqIds :
    (/\ reqs[r].path = "/api/summary" /\ reqs[r].pc = "done"
     /\ reqs[r].resp.status = 200 /\ reqs[r].oracle > 0)
      => cachedSummary # Null

\* C4: on every endpoint, a request whose read of storage succeeded and whose oracle
\* call threw or gave malformed output is not answered with status 500.
OracleFailureNeverFatal ==
  \A r \in ReqIds :
    (reqs[r].pc = "done" /\ reqs[r].readOk /\ reqs[r].oracleFailed)
      => reqs[r].resp.status # 500

(***************************************************************************)
(* Properties of the aggregation and of the rendered report                *)
(* (SpecAggregate).                                                        *)
(***************************************************************************)
\* C11: the selected headlines, and their order, are the same for every order of the
\* same records (themes of equal risk_score being ordered by their label).
HeadlinesIndependentOfRecordOrder ==
  agOut # Null => agOut.reorderedTop3 = agOut.page.headlines

\* the rows of the table that fall on a day and have the theme key
RowsOfTheme(day, theme) ==
  Cardinality({ i \in 1..Len(agItems) :
                  /\ dateOfTimestamp(agItems[i].timestamp) = day
                  /\ ThemeKey(agItems[i]) = theme })

AggregatedThemes == { agOut.aggregated[i].theme : i \in 1..Len(agOut.aggregated) }

\* C12: aggregateThemes returns one aggregate for every distinct theme of today's or
\* yesterday's rows; a theme seen only yesterday has total_mentions 0 and its
\* yesterday count.
AggregatesCoverBothDays ==
  agOut # Null =>
    /\ AggregatedThemes = { ThemeKey(agItems[i]) : i \in 1..Len(agItems) }
    /\ \A i, j \in 1..Len(agOut.aggregated) :
         agOut.aggregated[i].theme = agOut.aggregated[j].theme => i = j
    /\ \A i \in 1..Len(agOut.aggregated) :
         /\ agOut.aggregated[i].total_mentions = RowsOfTheme(AgDates.today, agOut.aggregated[i].theme)
         /\ agOut.aggregated[i].yesterday_mentions =
              RowsOfTheme(AgDates.yesterday, agOut.aggregated[i].theme)

\* the unclassified result of the aggregator's classifier is null, that of the
\* resolver's classifier is 'Other'
SameTheme(aggregator, resolver) ==
  IF aggregator = NoTheme THEN resolver = "Other" ELSE aggregator = resolver

\* C13: for every comment, toAbstractLabel and getThemeForCommentBackend assign the
\* same theme, unclassified corresponding to unclassified.
ClassifiersAgree ==
  agLabels # Null =>
    \A i \in 1..Len(agLabels.rows) : SameTheme(agLabels.rows[i].aggregator, agLabels.rows[i].resolver)

\* C14: the aggregate of the unclassified rows (key 'Other', line 282) appears in no
\* headline, no trend snapshot line and no recurring theme of the rendered report.
UnclassifiedNeverRendered ==
  agOut # Null =>
    /\ \A i \in 1..Len(agOut.page.headlines) : agOut.page.headlines[i].theme # "Other"
    /\ \A i \in 1..Len(agOut.page.trendSnapshot) : agOut.page.trendSnapshot[i].theme # "Other"
    /\ \A i \in 1..Len(agOut.page.recurring) : agOut.page.recurring[i].theme # "Other"

IsRounded(n, num, den) == 2 * den * n - den <= 2 * num /\ 2 * num < 2 * den * n + den

\* C17: with today count t and yesterday count y of a theme, percent_change_vs_yesterday
\* is round((t - y) / y * 100) when y > 0, 100 when y = 0 and t > 0, 0 when both are 0.
PercentChangeFormula ==
  agOut # Null =>
    \A i \in 1..Len(agOut.aggregated) :
      LET Holds(t, y, change) ==
            /\ y > 0 => IsRounded(change, (t - y) * 100, y)
            /\ (y = 0 /\ t > 0) => change = 100
            /\ (y = 0 /\ t = 0) => change = 0
      IN  Holds(RowsOfTheme(AgDates.today, agOut.aggregated[i].theme),
                RowsOfTheme(AgDates.yesterday, agOut.aggregated[i].theme),
                agOut.aggregated[i].percent_change_vs_yesterday)

\* a theme with two mentions today and three yesterday: -33.3 rounds to -33
PercentChangeRoundedWitness ==
  /\ agOut # Null
  /\ \E i \in 1..Len(agOut.aggregated) :
       /\ agOut.aggregated[i].total_mentions = 2
       /\ agOut.aggregated[i].yesterday_mentions = 3
       /\ agOut.aggregated[i].percent_change_vs_yesterday = -33

(***************************************************************************)
(* Properties of the risk score (SpecHeadline).                            *)
(***************************************************************************)
\* C16: risk_score = 3*enterprise_mentions + self_serve_mentions + (2 if
\* percent_negative >= 50), and risk_level is Critical iff risk_score >= 20, Monitor
\* iff 10 <= risk_score < 20, Low Impact iff risk_score < 10.
RiskScoreFormula ==
  hlTop3 # Null =>
    /\ Len(hlTop3.scored) = Len(hlAggregated)
    /\ \A i \in 1..Len(hlAggregated) :
         LET Holds(agg, scored) ==
               /\ scored.risk_score =
                    3 * agg.enterprise_mentions + agg.self_serve_mentions
                      + (IF agg.percent_negative >= 50 THEN 2 ELSE 0)
               /\ scored.risk_level \in {"Critical", "Monitor", "Low Impact"}
               /\ scored.risk_level = "Critical" <=> scored.risk_score >= 20
               /\ scored.risk_level = "Monitor" <=> (scored.risk_score >= 10 /\ scored.risk_score < 20)
               /\ scored.risk_level = "Low Impact" <=> scored.risk_score < 10
         IN  Holds(hlAggregated[i], hlTop3.scored[i])

\* themes around the thresholds: 20 is Critical, 11 is Monitor, 9 is Low Impact
RiskTiersWitness ==
  /\ hlTop3 # Null
  /\ \E i, j, k \in 1..Len(hlTop3.scored) :
       /\ hlTop3.scored[i].risk_score = 20 /\ hlTop3.scored[i].risk_level = "Critical"
       /\ hlTop3.scored[j].risk_score = 11 /\ hlTop3.scored[j].risk_level = "Monitor"
       /\ hlTop3.scored[k].risk_score = 9 /\ hlTop3.scored[k].risk_level = "Low Impact"

(***************************************************************************)
(* The Monitor label of /api/kpi-themes (SpecKpi).                         *)
(***************************************************************************)
\* the neutral rows of the table, in order
MonitorBucket ==
  LET IsNeutral(r) == toLowerCase(r.sentiment) = "neutral"
  IN  SelectSeq(kpiItems, IsNeutral)

\* the themes excluded from the Monitor bucket: the fixed exclusions and the Critical label
MonitorExcluded ==
  KPI_EXCLUDED_THEMES \cup (IF kpiResp.critical = Null THEN {} ELSE {kpiResp.critical.label})

\* the classified themes of the Monitor bucket that are not excluded
MonitorEligible ==
  { getThemeForCommentBackend(MonitorBucket[i].comment) : i \in 1..Len(MonitorBucket) }
    \ (MonitorExcluded \cup {"Other"})

\* C18: if the Monitor bucket has a record of theme 'Authentication / Login Issues'
\* and that theme is not excluded, the Monitor label is that theme, however frequent
\* other themes are; otherwise it is the most frequent non-excluded classified theme
\* of the bucket.
MonitorPrefersAuthentication ==
  KpiAnswered =>
    IF /\ RowsWithTheme(MonitorBucket, MONITOR_PREFERRED_THEME) >= 1
       /\ MONITOR_PREFERRED_THEME \notin MonitorExcluded
      THEN /\ kpiResp.monitor # Null
           /\ kpiResp.monitor.label = MONITOR_PREFERRED_THEME
           /\ kpiResp.monitor.count = RowsWithTheme(MonitorBucket, MONITOR_PREFERRED_THEME)
    ELSE IF MonitorEligible # {}
      THEN /\ kpiResp.monitor # Null
           /\ kpiResp.monitor.label \in MonitorEligible
           /\ kpiResp.monitor.count = RowsWithTheme(MonitorBucket, kpiResp.monitor.label)
           /\ \A theme \in MonitorEligible :
                RowsWithTheme(MonitorBucket, theme) <= kpiResp.monitor.count
    ELSE kpiResp.monitor = Null

\* the preferred theme wins with one neutral row against two of another theme
MonitorPrefersAuthenticationWitness ==
  /\ KpiAnswered
  /\ RowsWithTheme(MonitorBucket, MONITOR_PREFERRED_THEME) = 1
  /\ RowsWithTheme(MonitorBucket, "API Timeout Errors") = 2
  /\ kpiResp.monitor # Null
  /\ kpiResp.monitor.label = MONITOR_PREFERRED_THEME

(***************************************************************************)
(* Failure of the storage read and the empty table (SpecWorker).           *)
(***************************************************************************)
\* the request of slot r is answered in this step
Completes(r) == reqs'[r] # reqs[r] /\ reqs'[r].pc = "done"

\* the answered request had its storage read rejected
ReadRejected(q) == q.reads > 0 /\ ~q.readOk

\* the response carries a remediation hint, in its page or in its JSON body
HasHint(resp) ==
  IF "html" \in DOMAIN resp THEN "hint" \in DOMAIN resp.html ELSE "hint" \in DOMAIN resp

\* C19: when the storage read fails, every endpoint answers with status 500 and a
\* remediation hint, reads storage once only, and leaves every cache slot unchanged.
StorageFailureIsExplicit ==
  [][\A r \in ReqIds :
       (Completes(r) /\ ReadRejected(reqs'[r]))
         => /\ reqs'[r].resp.status = 500
            /\ HasHint(reqs'[r].resp)
            /\ reqs'[r].reads = 1
            /\ UNCHANGED cacheVars]_vars

\* the explicit no-data value of a route
NoDataResponse(path, resp) ==
  /\ resp.status = 200
  /\ path = "/" => (resp.html = emptyHtml /\ ~resp.fromCache)
  /\ path = "/api/feedback" => resp.rows = <<>>
  /\ path = "/api/summary" =>
       resp.summary = [overall_summary |-> "No feedback has been recorded yet.",
                       by_source |-> <<>>, top_urgent_issues |-> <<>>]
  /\ path = "/api/kpi-themes" =>
       (resp.critical = Null /\ resp.monitor = Null /\ resp.low = Null)

FinishesGenerated(r) ==
  reqs[r].path = "/" /\ reqs[r].pc = "ai" /\ reqs'[r].pc = "done"

\* C21: when two overlapping requests for '/' both find a cache slot expired and both
\* recompute it, they compute equivalent values: the second write leaves in the slot
\* what the first write put there.  (A request waiting for the oracle found the
\* summary slot expired; an entry that is valid for it now was written since by a
\* request that overlaps it.)
OverlappingRecomputationsAgree ==
  [][\A r \in ReqIds :
       /\ (FinishesGenerated(r)
            /\ execSummaryCacheValid(execSummaryCache, reqs[r].today, reqs[r].now))
            => execSummaryCache'.text = execSummaryCache.text
       /\ (FinishesGenerated(r)
            /\ dashboardCacheValid(dashboardCache, reqs[r].today, reqs[r].now))
            => dashboardCache'.html = dashboardCache.html]_vars

\* the request of slot r was answered with a report computed from the rows it read
ComputedReport(r) ==
  /\ reqs[r].path = "/" /\ reqs[r].pc = "done" /\ reqs[r].readOk
  /\ reqs[r].resp.status = 200 /\ ~reqs[r].resp.fromCache

\* C22: two requests for '/' made on the same UTC date against the same rows return
\* the same report, whatever was served before or between them.
SameDaySameRowsSameReport ==
  \A r1, r2 \in ReqIds :
    (/\ ComputedReport(r1) /\ ComputedReport(r2)
     /\ reqs[r1].today = reqs[r2].today
     /\ reqs[r1].items = reqs[r2].items)
      => reqs[r1].resp.html = reqs[r2].resp.html

\* the request in slot r returns in this step and stores its report in dashboardCache
StoresReport(r) ==
  /\ reqs[r].path = "/" /\ reqs[r].pc \in {"db", "ai"}
  /\ reqs'[r].pc = "done" /\ reqs'[r].resp.status = 200
  /\ reqs'[r].resp.html.page = "report"
  /\ dashboardCache' # Null /\ dashboardCache'.html = reqs'[r].resp.html

\* the storage read of the request for '/' in slot r resolves in this step
RootReadResolves(r) ==
  reqs[r].path = "/" /\ reqs[r].pc = "db" /\ reqs'[r].readOk

\* the summary entry is of the request's date and younger than 300000 ms for it
SummaryEntryFresh(q) ==
  /\ execSummaryCache # Null
  /\ execSummaryCache.date = q.today
  /\ q.today = dateOf(q.now)
  /\ q.now - execSummaryCache.cachedAt < EXEC_SUMMARY_CACHE_TTL_MS

\* C23: a request for '/' calls the oracle at most once, not at all when the summary
\* entry has today's date and is younger than 300000 ms, and not again after a failure
\* of the call.
OracleCalledAtMostOnce ==
  [][\A r \in ReqIds :
       /\ reqs'[r].path = "/" => reqs'[r].oracle <= 1
       /\ (RootReadResolves(r) /\ SummaryEntryFresh(reqs[r]))
            => (reqs'[r].oracle = 0 /\ reqs'[r].pc = "done")
       /\ (reqs'[r].path = "/" /\ reqs'[r].oracleFailed)
            => (reqs'[r].oracle = 1 /\ reqs'[r].pc = "done")]_vars

\* one request computed its report without the oracle, from the entry left by
\* another request whose only call failed
OracleSparedWitness ==
  \E r1, r2 \in ReqIds :
    /\ ComputedReport(r1) /\ reqs[r1].resp.html.page = "report" /\ reqs[r1].oracle = 0
    /\ ComputedReport(r2) /\ reqs[r2].oracleFailed /\ reqs[r2].oracle = 1

\* the text generateExecutiveSummary returns when the oracle call fails (line 536)
FailurePlaceholder ==
  [text |-> "Executive summary could not be generated.", context |-> <<>>]

IsNumericToken(w) == Len(w) >= 2 /\ \A k \in 1..Len(w) : IsDigit(CharAt(w, k))

\* C25: every non-null label of toAbstractLabel has at most 5 words and 50 characters,
\* does not end with a period, and holds no numeric token of 2 or more digits and no
\* UUID-shaped token.
LabelsAreShortPhrases ==
  agLabels # Null =>
    \A i \in 1..Len(agLabels.rows) :
      LET Short(label) ==
            label # NoTheme =>
              /\ Len(SplitWords(label)) <= 5
              /\ Len(label) <= 50
              /\ ~EndsWith(label, ".")
              /\ \A w \in Range(SplitWords(label)) : ~IsNumericToken(w)
              /\ \A k \in 1..Len(label) : ~UuidAt(label, k)
      IN  Short(agLabels.rows[i].aggregator)

(***************************************************************************)
(* The labels of the KPI cards (SpecKpi).                                  *)
(***************************************************************************)
\* C26: no card of a KPI response (critical, monitor, low issue) carries one of the
\* labels 'Notifications / Alerts' and 'Issue / Ticket Status'.
KpiCardsAvoidExcludedThemes ==
  KpiAnswered =>
    \A i \in 1..Len(KpiLabels(kpiResp)) :
      KpiLabels(kpiResp)[i] \notin {"Notifications / Alerts", "Issue / Ticket Status"}

(***************************************************************************)
(* The negativity bonus (SpecRisk).                                        *)
(***************************************************************************)
\* C30: for a theme of 1..200 mentions today, computeRiskScore adds the bonus of 2
\* exactly when at least half of the mentions are negative.
BonusIffHalfNegative ==
  rkScored # Null =>
    LET base == rkTally.enterprise * 3 + rkTally.selfServe
    IN  (rkScored.risk_score = base + 2) <=> (2 * rkTally.negative >= rkTally.total)

(***************************************************************************)
(* The report slot under overlapping requests (Spec).                      *)
(***************************************************************************)
\* the entry in dashboardCache is the report the finished request in slot r computed
HoldsReportOf(r) ==
  /\ ComputedReport(r) /\ reqs[r].resp.html.page = "report"
  /\ dashboardCache # Null
  /\ dashboardCache.html = reqs[r].resp.html /\ dashboardCache.date = reqs[r].today

\* C27: a report stored in dashboardCache is computed from rows read no earlier than
\* the rows behind the report it replaces; rows are only ever added to the table, so
\* the new report is never computed from fewer rows than the replaced one.
ReportSlotNeverGoesBack ==
  [][\A r1, r2 \in ReqIds :
       (r1 # r2 /\ StoresReport(r1) /\ HoldsReportOf(r2))
         => Len(reqs'[r1].items) >= Len(reqs[r2].items)]_vars

ThemesOf(lines) == [i \in 1..Len(lines) |-> lines[i].theme]

\* C28: the executive summary of every rendered report, when it is a generated text,
\* was generated from the themes the report shows as its headlines and in its trend
\* snapshot.
SummaryMatchesHeadlines ==
  \A r \in ReqIds :
    (reqs[r].path = "/" /\ reqs[r].pc = "done" /\ reqs[r].resp.status = 200
     /\ reqs[r].resp.html.page = "report"
     /\ reqs[r].resp.html.executiveSummary.context # <<>>)
      => /\ ThemesOf(reqs[r].resp.html.executiveSummary.context)
              = ThemesOf(reqs[r].resp.html.headlines)
         /\ ThemesOf(reqs[r].resp.html.executiveSummary.context)
              = ThemesOf(reqs[r].resp.html.trendSnapshot)

(***************************************************************************)
(* The counts of a resolved theme (SpecClassify).                          *)
(***************************************************************************)
\* the rows of the bucket whose deterministic theme is the given one
IndicesWithTheme(items, theme) ==
  { i \in 1..Len(items) : getThemeForCommentBackend(items[i].comment) = theme }

EnterpriseIndices(items) ==
  { i \in 1..Len(items) : toLowerCase(items[i].source) \in ENTERPRISE_SOURCES }

Resolved == clsReply # Null /\ clsResult # Null

\* C29: a non-null result of generateThemeWithCount, and of fallbackThemeAndCount
\* through it, has a count of at least 1 that is the number of rows of the bucket with
\* the deterministic theme label, and an enterpriseCount that is the number of those
\* rows from an enterprise source, between 0 and count.
ThemeCountsAreExact ==
  Resolved =>
    /\ clsResult.count >= 1
    /\ clsResult.count = Cardinality(IndicesWithTheme(clsItems, clsResult.label))
    /\ clsResult.enterpriseCount =
         Cardinality(IndicesWithTheme(clsItems, clsResult.label) \cap EnterpriseIndices(clsItems))
    /\ 0 <= clsResult.enterpriseCount /\ clsResult.enterpriseCount <= clsResult.count

\* the oracle's label was accepted for a bucket that also holds rows of other themes,
\* some of them from an enterprise source
ThemeCountsWitness ==
  /\ Resolved /\ clsReply.kind = "json" /\ clsReply.hasIssue /\ clsReply.indices # <<>>
  /\ clsPrefer = NoTheme
  /\ clsResult # fallbackThemeAndCount(clsItems, clsExclude, clsPrefer)
  /\ clsResult.label = OracleLabelTable[clsReply.issue].canonical
  /\ clsResult.count < Len(clsItems)
  /\ clsResult.enterpriseCount < Cardinality(EnterpriseIndices(clsItems))

====
